---- MODULE Spec2Model ----
(***************************************************************************)
(* Dynamic-schema record engine of impulso_local_back                      *)
(* (the dynamic-table controller over a PostgreSQL catalog).               *)
(*                                                                         *)
(* The state is the database the handlers act on (catalog, rows, the       *)
(* tables_metadata registry, the files table), the upload directory, and   *)
(* the answer of the last request.  Every handler is one action, except    *)
(* deleteTable, whose two awaited statements (COUNT, then DROP) are two    *)
(* steps so that other requests can run between them.                      *)
(***************************************************************************)
EXTENDS Integers, Sequences, FiniteSets, TLC

\* ------------------------------------------------------------------ bounds
MaxFields == 2      \* fields carried by one createTable / editTable request
MaxId == 2          \* highest id a table's sequence hands out
MaxRequests == 3    \* requests answered in one behaviour

\* ------------------------------------------------------------------ values
NULL == 0 - 2     \* SQL NULL / JS null (0 is the number zero)
Values == {1, 2}

TableNames == {"pi_a", "inscription_caracterizacion", "users"}
ColumnNames == {"id", "nombre", "caracterizacion_id"}

\* ------------------------------------------------------------ name helpers
StartsWith(s, p) == Len(s) >= Len(p) /\ SubSeq(s, 1, Len(p)) = p

RECURSIVE Trim(_)
Trim(s) ==
  IF s = "" THEN ""
  ELSE IF SubSeq(s, 1, 1) = " " THEN Trim(SubSeq(s, 2, Len(s)))
  ELSE IF SubSeq(s, Len(s), Len(s)) = " " THEN Trim(SubSeq(s, 1, Len(s) - 1))
  ELSE s

\* table_name.startsWith('inscription_') || ('provider_') || ('pi_')
prefixedTableName(name) ==
  \/ StartsWith(name, "inscription_")
  \/ StartsWith(name, "provider_")
  \/ StartsWith(name, "pi_")

\* A variant of BlankName that does not trim.
BlankNameExactOnly(name) == name = ""

\* !field.name || field.name.trim() === ''
BlankName(name) == name = "" \/ Trim(name) = ""

\* ------------------------------------------------------------- Type Mapper
\* validTypes of createTable: logical type -> Sequelize type ("" = undefined)
validTypes(t) ==
  CASE t = "VARCHAR(255)" -> "STRING"
    [] t = "TEXT"         -> "TEXT"
    [] t = "INTEGER"      -> "INTEGER"
    [] t = "DECIMAL"      -> "DECIMAL"
    [] t = "BOOLEAN"      -> "BOOLEAN"
    [] t = "DATE"         -> "DATE"
    [] t = "FOREIGN_KEY"  -> "INTEGER"
    [] OTHER              -> ""

\* The data_type information_schema reports for a column the postgres
\* dialect created from a Sequelize type.
PgDataType(st) ==
  CASE st = "STRING"  -> "character varying"
    [] st = "TEXT"    -> "text"
    [] st = "INTEGER" -> "integer"
    [] st = "DECIMAL" -> "numeric"
    [] st = "BOOLEAN" -> "boolean"
    [] st = "DATE"    -> "timestamp with time zone"
    [] OTHER          -> "unknown"

\* String.prototype.toUpperCase on the type names that occur here; every
\* other one is upper case already.
ToUpperCase(s) ==
  CASE s = "timestamp with time zone" -> "TIMESTAMP WITH TIME ZONE"
    [] s = "unknown"                  -> "UNKNOWN"
    [] s = "text"                     -> "TEXT"
    [] OTHER                          -> s

\* validTypes of editTable
editValidTypes(t) ==
  CASE t = "VARCHAR(255)"      -> "STRING"
    [] t = "CHARACTER VARYING" -> "STRING"
    [] t = "TEXT"              -> "TEXT"
    [] t = "INTEGER"           -> "INTEGER"
    [] t = "DECIMAL"           -> "DECIMAL"
    [] t = "BOOLEAN"           -> "BOOLEAN"
    [] t = "DATE"              -> "DATE"
    [] t = "FOREIGN_KEY"       -> "INTEGER"
    [] OTHER                   -> ""

\* getTableFields: switch (field.data_type)
mappedType(data_type) ==
  CASE data_type \in {"character varying", "varchar"}          -> "VARCHAR(255)"
    [] data_type = "text"                                      -> "TEXT"
    [] data_type = "integer"                                   -> "INTEGER"
    [] data_type \in {"numeric", "decimal"}                    -> "DECIMAL"
    [] data_type = "boolean"                                   -> "BOOLEAN"
    [] data_type \in {"date", "timestamp without time zone"}   -> "DATE"
    [] OTHER                                                   -> ToUpperCase(data_type)

\* ------------------------------------------------------------------- state
VARIABLES
  tables,     \* catalog: table name -> [exists, cols, rows, seq]
  metadata,   \* tables_metadata rows: set of [table_name, is_primary]
  pending,    \* deleteTable requests between their COUNT and their DROP
  files,      \* rows of the files table (model File), in insertion order
  disk,       \* files stored under the upload root /var/data/uploads
  tmp,        \* temporary uploaded files left in the upload middleware's folder
  resp,       \* the answer of the last request
  nreq,       \* requests answered so far
  calls,      \* requests between the SELECT that looks a row up and their write
  models,     \* sequelize.models: table name -> the model defined for it
  preferences \* rows of the field preferences table (model FieldPreference)

vars == <<tables, metadata, pending, files, disk, tmp, resp, nreq, calls, models,
          preferences>>

NoTable == [exists |-> FALSE, cols |-> <<>>, rows |-> <<>>, seq |-> 1]

\* The column `id` createTable starts from: integer, primaryKey, autoIncrement.
IdColumn ==
  [name |-> "id", data_type |-> "integer", pk |-> TRUE, autoInc |-> TRUE, fk |-> ""]

Column(name, st, related) ==
  [name |-> name, data_type |-> PgDataType(st), pk |-> FALSE, autoInc |-> FALSE,
   fk |-> related]

ColNames(t) == {t.cols[i].name : i \in DOMAIN t.cols}
ColIndex(t, c) == CHOOSE i \in DOMAIN t.cols : t.cols[i].name = c
HasColumn(t, c) == \E i \in DOMAIN t.cols : t.cols[i].name = c
ColOf(t, c) == t.cols[ColIndex(t, c)]

\* The table has a primary key `id` another table's foreign key can target.
HasKeyId(t) == t.exists /\ HasColumn(t, "id") /\ ColOf(t, "id").pk

\* Tables other than `name` holding a foreign key that references `name`.
Dependents(tbls, name) ==
  {o \in DOMAIN tbls \ {name} :
     tbls[o].exists /\ \E i \in DOMAIN tbls[o].cols : tbls[o].cols[i].fk = name}

Answer(op, table, status, err, stmts) ==
  [op |-> op, table |-> table, status |-> status, err |-> err, stmts |-> stmts]

\* The database the server is started on: inscription_caracterizacion already
\* exists with two rows, one of them without a nombre; nothing else is there.
SeedTable ==
  [exists |-> TRUE,
   cols |-> <<IdColumn, Column("nombre", "STRING", "")>>,
   rows |-> <<[id |-> 1, nombre |-> 1], [id |-> 2, nombre |-> NULL]>>,
   seq |-> 3]

\* sequelize.isDefined(name) is false: no model was defined under the name.
NoModel == [defined |-> FALSE, attrs |-> <<>>]

Init ==
  /\ tables = [n \in TableNames |->
                 IF n = "inscription_caracterizacion" THEN SeedTable ELSE NoTable]
  /\ metadata = {[table_name |-> "inscription_caracterizacion", is_primary |-> FALSE]}
  /\ pending = {}
  /\ files = <<>>
  /\ disk = {}
  /\ tmp = 0
  /\ resp = Answer("none", "", 0, "", 0)
  /\ nreq = 0
  /\ calls = {}
  /\ models = [n \in TableNames |-> NoModel]
  /\ preferences = <<>>

\* ---------------------------------------------------------------- requests
Field(name, type, relatedTable, relatedColumn) ==
  [name |-> name, type |-> type, relatedTable |-> relatedTable,
   relatedColumn |-> relatedColumn]

\* Fields a createTable request may carry.
CreateFields ==
  {Field("nombre", t, "", "") :
     t \in {"VARCHAR(255)", "DATE", "BLOB"}}
  \cup {Field("caracterizacion_id", "FOREIGN_KEY", r, "") :
          r \in {"", "inscription_caracterizacion"}}
  \cup {Field("id", "TEXT", "", ""), Field(" ", "TEXT", "", "")}

\* Fields an editTable request may ask to add.
EditFields ==
  {Field("nombre", "TEXT", "", ""), Field("nombre", "BLOB", "", ""),
   Field("caracterizacion_id", "FOREIGN_KEY", "pi_a", "id"),
   Field("caracterizacion_id", "FOREIGN_KEY", "pi_a", "")}

SeqsUpTo(S, n) == UNION {[1..k -> S] : k \in 0..n}

Min(S) == CHOOSE x \in S : \A y \in S : x <= y

ValidationErrors ==
  {"InvalidName", "MissingField", "InvalidFieldType", "NotFound", "NotEmpty",
   "ColumnHasData", "ColumnHasForeignKey", "NoValidFields", "UnsupportedOperation"}

\* ------------------------------------------------------------- createTable
\* The per-field checks of the loop over `fields`; "" when the field passes.
FieldError(f) ==
  IF BlankName(f.name) THEN "MissingField"
  ELSE IF f.type = "FOREIGN_KEY"
    THEN (IF f.relatedTable = "" THEN "MissingField" ELSE "")
  ELSE IF validTypes(f.type) = "" THEN "InvalidFieldType"
  ELSE ""

\* The answer of the first check that fails, in the order the handler runs
\* them; "" when the request passes validation.
CreateTableError(table_name, fields) ==
  IF table_name = "" \/ Len(fields) = 0 THEN "MissingField"
  ELSE IF ~prefixedTableName(table_name) THEN "InvalidName"
  ELSE LET bad == {i \in DOMAIN fields : FieldError(fields[i]) # ""}
       IN IF bad = {} THEN "" ELSE FieldError(fields[Min(bad)])

NewColumn(f) ==
  IF f.type = "FOREIGN_KEY" THEN Column(f.name, "INTEGER", f.relatedTable)
  ELSE Column(f.name, validTypes(f.type), "")

\* columns[field.name] = {...}: a key already in the object keeps its place
\* and takes the new definition, a new key goes last.
SetColumn(cols, c) ==
  IF \E i \in DOMAIN cols : cols[i].name = c.name
    THEN [i \in DOMAIN cols |-> IF cols[i].name = c.name THEN c ELSE cols[i]]
    ELSE Append(cols, c)

RECURSIVE BuildColumns(_, _)
BuildColumns(cols, fields) ==
  IF fields = <<>> THEN cols
  ELSE BuildColumns(SetColumn(cols, NewColumn(Head(fields))), Tail(fields))

\* CREATE TABLE accepts the definition: every REFERENCES names an existing
\* table (or the table itself) whose id is a key.
ReferencesResolve(tbls, name, cols) ==
  \A i \in DOMAIN cols :
    cols[i].fk # "" =>
      IF cols[i].fk = name
        THEN \E j \in DOMAIN cols : cols[j].name = "id" /\ cols[j].pk
        ELSE cols[i].fk \in DOMAIN tbls /\ HasKeyId(tbls[cols[i].fk])

\* TablesMetadata.create({ table_name }); table_name is unique.
TablesMetadataCreate(meta, table_name) ==
  IF \E m \in meta : m.table_name = table_name
    THEN [ok |-> FALSE, metadata |-> meta]
    ELSE [ok |-> TRUE,
          metadata |-> meta \cup {[table_name |-> table_name, is_primary |-> FALSE]}]

Outcome(tbls, meta, answer) == [tables |-> tbls, metadata |-> meta, answer |-> answer]

createTable(tbls, meta, table_name, fields) ==
  LET err == CreateTableError(table_name, fields)
      cols == BuildColumns(<<IdColumn>>, fields)
      \* queryInterface.createTable: CREATE TABLE IF NOT EXISTS
      created ==
        IF tbls[table_name].exists THEN tbls
        ELSE [tbls EXCEPT ![table_name] =
                [exists |-> TRUE, cols |-> cols, rows |-> <<>>, seq |-> 1]]
      reg == TablesMetadataCreate(meta, table_name)
  IN IF err # ""
       THEN Outcome(tbls, meta, Answer("createTable", table_name, 400, err, 0))
     ELSE IF ~tbls[table_name].exists /\ ~ReferencesResolve(tbls, table_name, cols)
       THEN Outcome(tbls, meta,
                    Answer("createTable", table_name, 500, "InternalError", 1))
     ELSE IF ~reg.ok
       THEN Outcome(created, meta,
                    Answer("createTable", table_name, 500, "InternalError", 2))
     ELSE Outcome(created, reg.metadata,
                  Answer("createTable", table_name, 201, "", 2))

CreateTable ==
  \E n \in TableNames, fields \in SeqsUpTo(CreateFields, MaxFields) :
    LET r == createTable(tables, metadata, n, fields)
    IN /\ nreq < MaxRequests
       /\ tables' = r.tables
       /\ metadata' = r.metadata
       /\ resp' = r.answer
       /\ nreq' = nreq + 1
       /\ UNCHANGED <<pending, files, disk, tmp, calls, models, preferences>>

\* A variant of tableNotEmpty that lets a single row through.
tableNotEmptyOffByOne(recordCount) == recordCount > 1

\* ------------------------------------------------------------- deleteTable
\* if (recordCount > 0)
tableNotEmpty(recordCount) == recordCount > 0

\* SELECT COUNT(*) ... ; answers at once unless the table exists and is empty.
deleteTableCount(tbls, table_name) ==
  IF ~tbls[table_name].exists
    THEN Answer("deleteTable", table_name, 500, "InternalError", 1)
  ELSE IF tableNotEmpty(Len(tbls[table_name].rows))
    THEN Answer("deleteTable", table_name, 400, "NotEmpty", 1)
  ELSE Answer("deleteTable", table_name, 0, "", 1)

\* queryInterface.dropTable: DROP TABLE IF EXISTS, without CASCADE, which the
\* database refuses while another table's foreign key references the table.
dropTable(tbls, table_name) ==
  IF Dependents(tbls, table_name) # {}
    THEN [ok |-> FALSE, tables |-> tbls]
    ELSE [ok |-> TRUE, tables |-> [tbls EXCEPT ![table_name] = NoTable]]

DeleteTableCount ==
  \E n \in DOMAIN tables :
    LET a == deleteTableCount(tables, n)
    IN /\ nreq + Cardinality(pending) < MaxRequests
       /\ n \notin pending
       /\ IF a.status = 0
            THEN pending' = pending \cup {n} /\ UNCHANGED <<resp, nreq>>
            ELSE resp' = a /\ nreq' = nreq + 1 /\ UNCHANGED pending
       /\ UNCHANGED <<tables, metadata, files, disk, tmp, calls, models, preferences>>

DeleteTableDrop ==
  \E n \in pending :
    LET d == dropTable(tables, n)
    IN /\ pending' = pending \ {n}
       /\ tables' = d.tables
       /\ resp' = IF d.ok THEN Answer("deleteTable", n, 200, "", 2)
                  ELSE Answer("deleteTable", n, 500, "InternalError", 2)
       /\ nreq' = nreq + 1
       /\ UNCHANGED <<metadata, files, disk, tmp, calls, models, preferences>>

\* --------------------------------------------------------------- editTable
EditBody(edit, adds, dels) ==
  [fieldsToEdit |-> edit, fieldsToAdd |-> adds, fieldsToDelete |-> dels]

\* The requests: fieldsToEdit empty or not, then at most MaxFields fields to
\* add and columns to delete together.
EditBodies ==
  UNION {{EditBody(e, a, d) :
            e \in BOOLEAN, a \in [1..k -> EditFields],
            d \in SeqsUpTo(ColumnNames, MaxFields - k)} : k \in 0..MaxFields}

\* A variant of hasFieldsToEdit that never sees fields to edit.
hasFieldsToEditIgnored(body) == FALSE

\* req.body.fieldsToEdit && req.body.fieldsToEdit.length > 0
hasFieldsToEdit(body) == body.fieldsToEdit

Extend(r, c) == [x \in DOMAIN r \cup {c} |-> IF x = c THEN NULL ELSE r[x]]
Restrict(r, c) == [x \in DOMAIN r \ {c} |-> r[x]]

\* ALTER TABLE ... ADD COLUMN: the table exists, the column is new, and a
\* REFERENCES names a key of an existing table.
addColumn(tbls, table_name, col, relatedColumn) ==
  LET t == tbls[table_name]
  IN IF \/ ~t.exists
        \/ HasColumn(t, col.name)
        \/ /\ col.fk # ""
           /\ ~(col.fk \in DOMAIN tbls /\ HasKeyId(tbls[col.fk]) /\ relatedColumn = "id")
       THEN [ok |-> FALSE, tables |-> tbls]
       ELSE [ok |-> TRUE,
             tables |-> [tbls EXCEPT ![table_name] =
                [t EXCEPT !.cols = Append(@, col),
                          !.rows = [i \in DOMAIN @ |-> Extend(@[i], col.name)]]]]

\* ALTER TABLE ... DROP COLUMN
removeColumn(tbls, table_name, c) ==
  LET t == tbls[table_name]
  IN [tbls EXCEPT ![table_name] =
        [t EXCEPT !.cols = SelectSeq(@, LAMBDA x : x.name # c),
                  !.rows = [i \in DOMAIN @ |-> Restrict(@[i], c)]]]

EditOutcome(tbls, status, err, stmts) ==
  [tables |-> tbls, status |-> status, err |-> err, stmts |-> stmts]

\* The loop over fieldsToAdd: each field is checked, then added, in order.
RECURSIVE addFields(_, _, _, _)
addFields(tbls, table_name, adds, stmts) ==
  IF adds = <<>> THEN EditOutcome(tbls, 200, "", stmts)
  ELSE
    LET f == Head(adds)
        isFk == ToUpperCase(f.type) = "FOREIGN_KEY"
        col == IF isFk THEN Column(f.name, "INTEGER", f.relatedTable)
               ELSE Column(f.name, editValidTypes(ToUpperCase(f.type)), "")
        added == addColumn(tbls, table_name, col, f.relatedColumn)
    IN IF BlankName(f.name) THEN EditOutcome(tbls, 400, "MissingField", stmts)
       ELSE IF isFk /\ (f.relatedTable = "" \/ f.relatedColumn = "")
         THEN EditOutcome(tbls, 400, "MissingField", stmts)
       ELSE IF ~isFk /\ editValidTypes(ToUpperCase(f.type)) = ""
         THEN EditOutcome(tbls, 400, "InvalidFieldType", stmts)
       ELSE IF ~added.ok THEN EditOutcome(tbls, 500, "InternalError", stmts + 1)
       ELSE addFields(added.tables, table_name, Tail(adds), stmts + 1)

\* A variant of columnHasData that asks for a value in every row.
columnHasDataInEveryRow(t, c) ==
  t.rows # <<>> /\ \A i \in DOMAIN t.rows : t.rows[i][c] # NULL

\* SELECT COUNT(*) ... WHERE "<column>" IS NOT NULL; parseInt(count, 10) > 0
columnHasData(t, c) == \E i \in DOMAIN t.rows : t.rows[i][c] # NULL

\* A variant of foreignKeys that finds no constraint.
foreignKeysNone(t, c) == {}

\* information_schema.key_column_usage rows of the column: one for each key
\* constraint it is part of, primary key or foreign key.
foreignKeys(t, c) ==
  (IF ColOf(t, c).pk THEN {"PRIMARY KEY"} ELSE {})
    \cup (IF ColOf(t, c).fk # "" THEN {"FOREIGN KEY"} ELSE {})

\* The loop over fieldsToDelete.
RECURSIVE deleteFields(_, _, _, _)
deleteFields(tbls, table_name, dels, stmts) ==
  IF dels = <<>> THEN EditOutcome(tbls, 200, "", stmts)
  ELSE
    LET c == Head(dels)
        t == tbls[table_name]
    IN IF ~t.exists \/ ~HasColumn(t, c)
         THEN EditOutcome(tbls, 500, "InternalError", stmts + 1)
       ELSE IF columnHasData(t, c)
         THEN EditOutcome(tbls, 400, "ColumnHasData", stmts + 1)
       ELSE IF foreignKeys(t, c) # {}
         THEN EditOutcome(tbls, 400, "ColumnHasForeignKey", stmts + 2)
       ELSE deleteFields(removeColumn(tbls, table_name, c), table_name,
                         Tail(dels), stmts + 3)

editTable(tbls, table_name, body) ==
  LET a == addFields(tbls, table_name, body.fieldsToAdd, 0)
      d == deleteFields(a.tables, table_name, body.fieldsToDelete, a.stmts)
  IN IF hasFieldsToEdit(body) THEN EditOutcome(tbls, 400, "UnsupportedOperation", 0)
     ELSE IF a.status # 200 THEN a
     ELSE d

EditTable ==
  \E n \in TableNames, body \in EditBodies :
    LET r == editTable(tables, n, body)
    IN /\ nreq < MaxRequests
       /\ tables' = r.tables
       /\ resp' = Answer("editTable", n, r.status, r.err, r.stmts)
       /\ nreq' = nreq + 1
       /\ UNCHANGED <<metadata, pending, files, disk, tmp, calls, models, preferences>>

\* --------------------------------------------------------- Record Accessor
Absent == 0 - 1     \* a key the request body does not carry (undefined)
DataKeys == {"nombre", "caracterizacion_id"}
Bodies == [DataKeys -> {Absent, NULL} \cup Values]
RecordIds == 1..MaxId

\* SELECT column_name FROM information_schema.columns
\*   WHERE LOWER(table_name) = LOWER(?)
liveColumns(tbls, table_name) ==
  IF table_name \in DOMAIN tbls /\ tbls[table_name].exists
    THEN ColNames(tbls[table_name]) ELSE {}

\* A variant of filteredData that lets null through.
filteredDataKeepsNull(fields, data) ==
  {k \in DOMAIN data : k \in fields /\ data[k] # Absent}

\* fields.includes(key) && data[key] !== undefined && data[key] !== null
filteredData(fields, data) ==
  {k \in DOMAIN data : k \in fields /\ data[k] # Absent /\ data[k] # NULL}

\* The database parses every bound value as its column's type; the values of
\* the requests here are numbers, which no timestamp column takes.
TypesFit(t, keys) ==
  \A k \in keys : ColOf(t, k).data_type # "timestamp with time zone"

\* Every foreign key of row r of table t references an existing id.
FkHolds(tbls, t, r) ==
  \A i \in DOMAIN t.cols :
    (t.cols[i].fk # "" /\ r[t.cols[i].name] # NULL) =>
      \E j \in DOMAIN tbls[t.cols[i].fk].rows :
        tbls[t.cols[i].fk].rows[j]["id"] = r[t.cols[i].name]

\* INSERT INTO "<table>" (<keys>) VALUES (...) RETURNING *
insertRow(tbls, table_name, keys, data) ==
  LET t == tbls[table_name]
      auto == HasColumn(t, "id") /\ ColOf(t, "id").autoInc /\ "id" \notin keys
      row == [c \in ColNames(t) |->
                IF c \in keys THEN data[c]
                ELSE IF c = "id" /\ auto THEN t.seq ELSE NULL]
      after == [tbls EXCEPT ![table_name] =
                  [t EXCEPT !.rows = Append(@, row),
                            !.seq = IF auto THEN @ + 1 ELSE @]]
      taken == HasColumn(t, "id")
                 /\ \E i \in DOMAIN t.rows : t.rows[i]["id"] = row["id"]
  IN IF keys = {} \/ ~TypesFit(t, keys) \/ taken
          \/ ~FkHolds(after, after[table_name], row)
       THEN [ok |-> FALSE, tables |-> tbls]
       ELSE [ok |-> TRUE, tables |-> after]

\* UPDATE "<table>" SET <keys> WHERE id = <id> RETURNING *. `id` is a column
\* like any other in the SET clause: the primary key must stay unique, and a
\* foreign key that references the changed id follows it (onUpdate: 'CASCADE').
updateRows(tbls, table_name, id, keys, data) ==
  LET t == tbls[table_name]
      hit == {i \in DOMAIN t.rows : id # NULL /\ t.rows[i]["id"] = id}
      rows == [i \in DOMAIN t.rows |->
                 IF i \in hit
                   THEN [c \in DOMAIN t.rows[i] |->
                           IF c \in keys THEN data[c] ELSE t.rows[i][c]]
                   ELSE t.rows[i]]
      rekeyed == "id" \in keys /\ hit # {}
      taken == rekeyed /\ \E i, j \in DOMAIN rows : i # j /\ rows[i]["id"] = rows[j]["id"]
      Follow(o, r) ==
        [c \in DOMAIN r |->
           IF rekeyed /\ ColOf(tbls[o], c).fk = table_name /\ r[c] = id
             THEN data["id"] ELSE r[c]]
      after == [o \in DOMAIN tbls |->
                  IF o = table_name THEN [t EXCEPT !.rows = rows]
                  ELSE [tbls[o] EXCEPT !.rows = [i \in DOMAIN @ |-> Follow(o, @[i])]]]
  IN IF ~TypesFit(t, keys) \/ taken
          \/ \E i \in hit : ~FkHolds(after, after[table_name], rows[i])
       THEN [ok |-> FALSE, tables |-> tbls, count |-> 0]
       ELSE [ok |-> TRUE, tables |-> after, count |-> Cardinality(hit)]

RecordOutcome(tbls, op, table_name, status, err, stmts) ==
  [tables |-> tbls, answer |-> Answer(op, table_name, status, err, stmts)]

\* updateTableRecord and updatePiRecord: the same handler body behind two
\* different prefix checks.
updateRecord(op, prefixOk, tbls, table_name, record_id, data) ==
  LET t == tbls[table_name]
      fd == filteredData(liveColumns(tbls, table_name), data)
      upd == updateRows(tbls, table_name, record_id, fd, data)
  IN IF ~prefixOk
       THEN RecordOutcome(tbls, op, table_name, 400, "InvalidName", 0)
     ELSE IF ~t.exists \/ ~HasColumn(t, "id")
       THEN RecordOutcome(tbls, op, table_name, 500, "InternalError", 1)
     ELSE IF ~\E i \in DOMAIN t.rows : t.rows[i]["id"] = record_id
       THEN RecordOutcome(tbls, op, table_name, 404, "NotFound", 1)
     ELSE IF fd = {}
       THEN RecordOutcome(tbls, op, table_name, 400, "NoValidFields", 2)
     ELSE IF ~upd.ok
       THEN RecordOutcome(tbls, op, table_name, 500, "InternalError", 3)
     ELSE IF upd.count = 0
       THEN RecordOutcome(tbls, op, table_name, 404, "NotFound", 3)
     ELSE RecordOutcome(upd.tables, op, table_name, 200, "", 3)

updateTableRecord(tbls, table_name, record_id, data) ==
  updateRecord("updateTableRecord",
               StartsWith(table_name, "provider_") \/ StartsWith(table_name, "inscription_"),
               tbls, table_name, record_id, data)

updatePiRecord(tbls, table_name, record_id, data) ==
  updateRecord("updatePiRecord", StartsWith(table_name, "pi_"),
               tbls, table_name, record_id, data)

\* The columns createTableRecord looks an existing row up by.
naturalKey(table_name) ==
  IF table_name = "pi_formulacion" THEN {"caracterizacion_id", "rel_id_prov"}
  ELSE {"caracterizacion_id"}

\* if (filteredData.caracterizacion_id): the value is there and is truthy;
\* of the numbers, zero is not.
Truthy(v) == v # 0

\* if (filteredData.caracterizacion_id [&& filteredData.rel_id_prov])
keyGiven(table_name, fd, data) ==
  \A k \in naturalKey(table_name) : k \in fd /\ Truthy(data[k])

\* The rows the existence check of createTableRecord returns: none unless the
\* filtered data carries a truthy value for every key column.
existingRecords(tbls, table_name, data) ==
  LET t == tbls[table_name]
      fd == filteredData(liveColumns(tbls, table_name), data)
  IN IF t.exists /\ keyGiven(table_name, fd, data)
       THEN {i \in DOMAIN t.rows :
               \A k \in naturalKey(table_name) : t.rows[i][k] = data[k]}
       ELSE {}

\* `first` is the row the unordered SELECT returns first (0 when it returns none).
createTableRecord(tbls, table_name, data, first) ==
  LET op == "createTableRecord"
      t == tbls[table_name]
      fields == liveColumns(tbls, table_name)
      fd == filteredData(fields, data)
      checked == IF keyGiven(table_name, fd, data) THEN 1 ELSE 0
      upd == updateRows(tbls, table_name, t.rows[first]["id"], fd, data)
      ins == insertRow(tbls, table_name, fd, data)
  IN IF ~StartsWith(table_name, "pi_")
       THEN RecordOutcome(tbls, op, table_name, 400, "InvalidName", 0)
     ELSE IF fields = {}
       THEN RecordOutcome(tbls, op, table_name, 500, "InternalError", 1)
     ELSE IF first # 0
       THEN IF ~HasColumn(t, "id") \/ ~upd.ok
              THEN RecordOutcome(tbls, op, table_name, 500, "InternalError", 3)
              ELSE RecordOutcome(upd.tables, op, table_name, 200, "", 3)
     ELSE IF ~ins.ok
       THEN RecordOutcome(tbls, op, table_name, 500, "InternalError", 2 + checked)
     ELSE RecordOutcome(ins.tables, op, table_name, 201, "", 2 + checked)

\* A variant of deleteRows under which a foreign key keeps its value when the
\* row it references is deleted.
deleteRowsKeepsReferences(tbls, table_name, id) ==
  [tbls EXCEPT ![table_name].rows = SelectSeq(@, LAMBDA r : r["id"] # id)]

\* DELETE FROM "<table>" WHERE id = :record_id RETURNING *; a foreign key that
\* references a deleted row is set to null (onDelete: 'SET NULL').
deleteRows(tbls, table_name, id) ==
  LET t == tbls[table_name]
      kept == SelectSeq(t.rows, LAMBDA r : r["id"] # id)
      gone == [tbls EXCEPT ![table_name] = [t EXCEPT !.rows = kept]]
      SetNull(o, r) ==
        [c \in DOMAIN r |->
           IF /\ Len(kept) # Len(t.rows)
              /\ ColOf(gone[o], c).fk = table_name
              /\ r[c] = id
             THEN NULL ELSE r[c]]
  IN [o \in DOMAIN tbls |->
        [gone[o] EXCEPT !.rows = [i \in DOMAIN @ |-> SetNull(o, @[i])]]]

\* A variant of deleteTableRecord whose prefix check runs after the DELETE.
deleteTableRecordChecksLate(tbls, table_name, record_id, zeroSeen) ==
  LET op == "deleteTableRecord"
      t == tbls[table_name]
      after == IF t.exists /\ HasColumn(t, "id")
                 THEN deleteRows(tbls, table_name, record_id) ELSE tbls
  IN IF ~StartsWith(table_name, "pi_")
       THEN RecordOutcome(after, op, table_name, 400, "InvalidName", 1)
     ELSE IF ~t.exists \/ ~HasColumn(t, "id")
       THEN RecordOutcome(tbls, op, table_name, 500, "InternalError", 1)
     ELSE IF after = tbls /\ zeroSeen
       THEN RecordOutcome(tbls, op, table_name, 404, "NotFound", 1)
     ELSE RecordOutcome(after, op, table_name, 200, "", 1)

\* `zeroSeen` is whether result[1] of the DELETE is the number 0 when no row
\* matched, which depends on the shape the driver gives the result.
deleteTableRecord(tbls, table_name, record_id, zeroSeen) ==
  LET op == "deleteTableRecord"
      t == tbls[table_name]
      after == deleteRows(tbls, table_name, record_id)
  IN IF ~StartsWith(table_name, "pi_")
       THEN RecordOutcome(tbls, op, table_name, 400, "InvalidName", 0)
     ELSE IF ~t.exists \/ ~HasColumn(t, "id")
       THEN RecordOutcome(tbls, op, table_name, 500, "InternalError", 1)
     ELSE IF after = tbls /\ zeroSeen
       THEN RecordOutcome(tbls, op, table_name, 404, "NotFound", 1)
     ELSE RecordOutcome(after, op, table_name, 200, "", 1)

RecordStep(r) ==
  /\ nreq < MaxRequests
  /\ \A n \in DOMAIN r.tables : r.tables[n].seq <= MaxId + 1
  /\ tables' = r.tables
  /\ resp' = r.answer
  /\ nreq' = nreq + 1
  /\ UNCHANGED <<metadata, pending, files, disk, tmp, calls, models, preferences>>

UpdateTableRecord ==
  \E n \in TableNames, id \in RecordIds, data \in Bodies :
    RecordStep(updateTableRecord(tables, n, id, data))

UpdatePiRecord ==
  \E n \in TableNames, id \in RecordIds, data \in Bodies :
    RecordStep(updatePiRecord(tables, n, id, data))

CreateTableRecord ==
  \E n \in TableNames, data \in Bodies :
    LET found == existingRecords(tables, n, data)
    IN \E first \in IF found = {} THEN {0} ELSE found :
         RecordStep(createTableRecord(tables, n, data, first))

DeleteTableRecord ==
  \E n \in DOMAIN tables, id \in RecordIds, zeroSeen \in BOOLEAN :
    RecordStep(deleteTableRecord(tables, n, id, zeroSeen))

\* ---------------------------------------------------- File Attachment Store
OriginalName == "a.pdf"
ExtName == ".pdf"       \* path.extname(req.file.originalname)

Upload(hasFile, fileName, caracterizacion_id) ==
  [hasFile |-> hasFile, fileName |-> fileName, caracterizacion_id |-> caracterizacion_id]

Uploads == {Upload(h, f, c) : h \in BOOLEAN, f \in {"", "doc"}, c \in {Absent, 1}}

FileOutcome(f, d, leaked, table_name, status, err, stmts) ==
  [files |-> f, disk |-> d, leaked |-> leaked,
   answer |-> Answer("uploadFile", table_name, status, err, stmts)]

\* A variant of uploadFile that makes the folder and copies the file before
\* it looks at the request.
uploadFileChecksLate(f, d, table_name, record_id, up) ==
  LET isPi == StartsWith(table_name, "pi_")
      finalRecordId == IF isPi THEN up.caracterizacion_id ELSE record_id
      uploadDir == IF isPi THEN "inscription_caracterizacion" ELSE table_name
      finalFileName == IF up.fileName # "" THEN up.fileName \o ExtName ELSE OriginalName
      newPath == <<uploadDir, finalRecordId, finalFileName>>
      relativeFilePath == <<"/uploads", table_name, finalRecordId, finalFileName>>
      newFile == [id |-> Len(f) + 1, record_id |-> finalRecordId,
                  table_name |-> table_name, name |-> finalFileName,
                  file_path |-> relativeFilePath, source |-> "unknown"]
  IN IF ~up.hasFile
       THEN FileOutcome(f, d, 0, table_name, 400, "MissingField", 0)
     ELSE IF ~prefixedTableName(table_name)
       THEN FileOutcome(f, d \cup {newPath}, 1, table_name, 400, "InvalidName", 0)
     ELSE IF isPi /\ up.caracterizacion_id = Absent
       THEN FileOutcome(f, d \cup {newPath}, 1, table_name, 400, "MissingField", 0)
     ELSE FileOutcome(Append(f, newFile), d \cup {newPath}, 0, table_name, 200, "", 1)

uploadFile(f, d, table_name, record_id, up) ==
  LET isPi == StartsWith(table_name, "pi_")
      finalRecordId == IF isPi THEN up.caracterizacion_id ELSE record_id
      uploadDir == IF isPi THEN "inscription_caracterizacion" ELSE table_name
      finalFileName == IF up.fileName # "" THEN up.fileName \o ExtName ELSE OriginalName
      newPath == <<uploadDir, finalRecordId, finalFileName>>
      relativeFilePath == <<"/uploads", table_name, finalRecordId, finalFileName>>
      newFile == [id |-> Len(f) + 1, record_id |-> finalRecordId,
                  table_name |-> table_name, name |-> finalFileName,
                  file_path |-> relativeFilePath, source |-> "unknown"]
  IN IF ~up.hasFile
       THEN FileOutcome(f, d, 0, table_name, 400, "MissingField", 0)
     ELSE IF ~prefixedTableName(table_name)
       THEN FileOutcome(f, d, 1, table_name, 400, "InvalidName", 0)
     ELSE IF isPi /\ up.caracterizacion_id = Absent
       THEN FileOutcome(f, d, 1, table_name, 400, "MissingField", 0)
     ELSE FileOutcome(Append(f, newFile), d \cup {newPath}, 0, table_name, 200, "", 1)

UploadFile ==
  \E n \in TableNames, id \in {1}, up \in Uploads :
    LET r == uploadFile(files, disk, n, id, up)
    IN /\ nreq < MaxRequests
       /\ files' = r.files
       /\ disk' = r.disk
       /\ tmp' = tmp + r.leaked
       /\ resp' = r.answer
       /\ nreq' = nreq + 1
       /\ UNCHANGED <<tables, metadata, pending, calls, models, preferences>>

\* ------------------------------------------------- Metadata Catalog Reader
\* table_name LIKE :tablePrefix, the prefix being '<type>_%': in a LIKE
\* pattern `_` stands for any one character and `%` for any string.
Like(name, typeWord) ==
  StartsWith(name, typeWord) /\ Len(name) >= Len(typeWord) + 1

tablePrefix(tableType) ==
  IF tableType = "provider" THEN "provider"
  ELSE IF tableType = "pi" THEN "pi"
  ELSE "inscription"

\* The list listTables answers with (it answers 404 when the list is empty).
listTables(tbls, meta, tableType, isPrimary) ==
  LET found == {n \in DOMAIN tbls : tbls[n].exists /\ Like(n, tablePrefix(tableType))}
      tableList ==
        {[table_name |-> n,
          is_primary |-> \E m \in meta : m.table_name = n /\ m.is_primary] : n \in found}
  IN IF isPrimary = "true" THEN {e \in tableList : e.is_primary} ELSE tableList

TableTypes == {"provider", "pi", "inscription", ""}

ListTables ==
  \E tableType \in TableTypes, isPrimary \in {"", "true"} :
    LET l == listTables(tables, metadata, tableType, isPrimary)
    IN /\ nreq < MaxRequests
       /\ resp' = IF l = {} THEN Answer("listTables", tableType, 404, "NotFound", 2)
                  ELSE Answer("listTables", tableType, 200, "", 2)
       /\ nreq' = nreq + 1
       /\ UNCHANGED <<tables, metadata, pending, files, disk, tmp, calls, models, preferences>>

\* The rows of the catalog query of getTableFields for one column: the LEFT
\* JOINs give one row for each key_column_usage row of the column (with the
\* foreign table when that constraint is a FOREIGN KEY), one row otherwise.
fieldRows(col) ==
  LET keys == (IF col.pk THEN {"PRIMARY KEY"} ELSE {})
                \cup (IF col.fk # "" THEN {"FOREIGN KEY"} ELSE {})
      Row(k) == [column_name |-> col.name,
                 data_type |-> mappedType(col.data_type),
                 foreign_table_name |-> IF k = "FOREIGN KEY" THEN col.fk ELSE ""]
  IN IF keys = {} THEN {Row("")} ELSE {Row(k) : k \in keys}

\* The body getTableFields answers with; empty when it answers 404.
getTableFields(tbls, table_name) ==
  IF table_name \in DOMAIN tbls /\ tbls[table_name].exists
    THEN UNION {fieldRows(tbls[table_name].cols[i]) : i \in DOMAIN tbls[table_name].cols}
    ELSE {}

GetTableFields ==
  \E n \in TableNames :
    /\ nreq < MaxRequests
    /\ resp' = IF getTableFields(tables, n) = {}
                 THEN Answer("getTableFields", n, 404, "NotFound", 1)
                 ELSE Answer("getTableFields", n, 200, "", 1)
    /\ nreq' = nreq + 1
    /\ UNCHANGED <<tables, metadata, pending, files, disk, tmp, calls, models, preferences>>

Next ==
  \/ CreateTable
  \/ DeleteTableCount
  \/ DeleteTableDrop
  \/ EditTable
  \/ ListTables
  \/ GetTableFields
  \/ CreateTableRecord
  \/ UpdateTableRecord
  \/ UpdatePiRecord
  \/ DeleteTableRecord
  \/ UploadFile

Spec == Init /\ [][Next]_vars

\* =================================================================== claims
\* A deleteTable request answers in this step.
DeleteAnswered(n) == nreq' = nreq + 1 /\ resp'.op = "deleteTable" /\ resp'.table = n
\* The DROP of a deleteTable request on n runs in this step.
DropStep(n) == n \in pending /\ n \notin pending'

Listed(tbls, meta, n) ==
  \E tableType \in TableTypes, isPrimary \in {"", "true"} :
    \E e \in listTables(tbls, meta, tableType, isPrimary) : e.table_name = n

\* C1 (as stated): deleteTable on a table with at least one row fails with
\* NotEmpty and leaves the table in place; on a table with zero rows it always
\* succeeds and the table is in no later listing.
C1_DeleteEmptyAlwaysSucceeds ==
  [][\A n \in TableNames :
       /\ (DeleteAnswered(n) /\ pending' = pending /\ tables[n].exists
             /\ Len(tables[n].rows) >= 1)
            => (resp'.err = "NotEmpty" /\ tables' = tables)
       /\ (DropStep(n) /\ tables[n].exists /\ Len(tables[n].rows) = 0)
            => (resp'.status = 200 /\ ~tables'[n].exists
                  /\ ~Listed(tables', metadata', n))]_vars

\* C1 (amended): deleteTable on a table with at least one row fails with
\* NotEmpty, leaves the table in place and never reaches the DROP; the DROP of
\* a table no other table's foreign key references succeeds and the table is
\* in no later listing; the DROP of a referenced table is refused, the request
\* fails and the table stays.
C1_DeleteTable ==
  [][\A n \in TableNames :
       /\ (DeleteAnswered(n) /\ pending' = pending /\ tables[n].exists
             /\ Len(tables[n].rows) >= 1)
            => (resp'.err = "NotEmpty" /\ tables' = tables)
       /\ (n \in pending' /\ n \notin pending)
            => (tables[n].exists /\ Len(tables[n].rows) = 0)
       /\ (DropStep(n) /\ Dependents(tables, n) = {})
            => (resp'.status = 200 /\ ~tables'[n].exists
                  /\ ~Listed(tables', metadata', n))
       /\ (DropStep(n) /\ Dependents(tables, n) # {})
            => (resp'.status = 500 /\ tables' = tables)]_vars

\* An empty table was dropped and is gone from the catalog.
C1_Witness ==
  /\ resp.op = "deleteTable" /\ resp.status = 200 /\ resp.table = "pi_a"
  /\ ~tables["pi_a"].exists
  /\ ~Listed(tables, metadata, "pi_a")

\* C2: whenever a deleteTable request drops a table, the table holds zero rows
\* at that moment, whatever requests ran since its COUNT.
C2_DroppedOnlyWhenEmpty ==
  [][\A n \in TableNames :
       (DropStep(n) /\ tables[n].exists /\ ~tables'[n].exists)
         => Len(tables[n].rows) = 0]_vars

\* The requests a createTable may receive.
CreateRequests == SeqsUpTo(CreateFields, MaxFields)

\* The closed enumeration of logical field types.
LogicalTypes ==
  {"VARCHAR(255)", "TEXT", "INTEGER", "DECIMAL", "BOOLEAN", "DATE", "FOREIGN_KEY"}

OnlySpaces(s) == \A i \in 1..Len(s) : SubSeq(s, i, i) = " "

BadPrefix(n) ==
  \A p \in {"inscription_", "provider_", "pi_"} :
    Len(n) < Len(p) \/ SubSeq(n, 1, Len(p)) # p

BadField(f) ==
  \/ OnlySpaces(f.name)
  \/ f.type = "FOREIGN_KEY" /\ f.relatedTable = ""
  \/ f.type \notin LogicalTypes

\* C3: a createTable request with a name outside the three prefixes, an empty
\* field list, a blank field name, a FOREIGN_KEY field without related table or
\* a field type outside the enumeration is answered 400, creates no table and
\* adds no registry entry, wherever the offending field stands in the list; a
\* bad name with fields answers InvalidName, a bad type alone InvalidFieldType.
C3_RejectedCreateTableCreatesNothing ==
  \A n \in TableNames, fields \in CreateRequests :
    LET r == createTable(tables, metadata, n, fields)
        offending == {i \in DOMAIN fields : BadField(fields[i])}
    IN (BadPrefix(n) \/ fields = <<>> \/ offending # {})
         => /\ r.answer.status = 400
            /\ r.answer.err \in {"InvalidName", "MissingField", "InvalidFieldType"}
            /\ r.answer.stmts = 0
            /\ r.tables = tables
            /\ r.metadata = metadata
            /\ (BadPrefix(n) /\ fields # <<>>) => r.answer.err = "InvalidName"
            /\ (~BadPrefix(n) /\ offending # {}
                  /\ \A i \in offending : fields[i].type \notin LogicalTypes
                                            /\ ~OnlySpaces(fields[i].name))
                 => r.answer.err = "InvalidFieldType"

\* A createTable was rejected for a field type and its table does not exist.
C3_Witness ==
  /\ resp.op = "createTable" /\ resp.table = "pi_a"
  /\ resp.status = 400 /\ resp.err = "InvalidFieldType"
  /\ ~tables["pi_a"].exists
  /\ ~\E m \in metadata : m.table_name = "pi_a"

RequestedNames(fields) == {fields[i].name : i \in DOMAIN fields}

\* C4: a createTable answered 201 made a table whose `id` is an
\* auto-incrementing integer primary key and whose other columns are exactly
\* the requested ones, and registered it; every existing table has a registry
\* entry.
C4_CreatedTableHasKeyId ==
  /\ \A n \in TableNames, fields \in CreateRequests :
       LET r == createTable(tables, metadata, n, fields)
           t == r.tables[n]
       IN r.answer.status = 201
            => /\ t.exists
               /\ HasColumn(t, "id")
               /\ ColOf(t, "id").data_type = "integer"
               /\ ColOf(t, "id").pk
               /\ ColOf(t, "id").autoInc
               /\ {t.cols[i].name : i \in DOMAIN t.cols}
                    = {"id"} \cup RequestedNames(fields)
               /\ \E m \in r.metadata : m.table_name = n
  /\ \A n \in TableNames :
       tables[n].exists => \E m \in metadata : m.table_name = n

\* The logical type a request asks for column c (the last field of that name).
RequestedType(fields, c) ==
  LET last == CHOOSE i \in DOMAIN fields :
                /\ fields[i].name = c
                /\ \A j \in DOMAIN fields : fields[j].name = c => j <= i
  IN IF fields[last].type = "FOREIGN_KEY" THEN "INTEGER" ELSE fields[last].type

\* C5: after a createTable answered 201, getTableFields reports the requested
\* columns and `id`, each once, with the logical type that was requested
\* (FOREIGN_KEY as INTEGER).
C5_CatalogRoundTrip ==
  \A n \in TableNames, fields \in CreateRequests :
    LET r == createTable(tables, metadata, n, fields)
        rows == getTableFields(r.tables, n)
    IN r.answer.status = 201
         => /\ {row.column_name : row \in rows} = {"id"} \cup RequestedNames(fields)
            /\ \A c \in {"id"} \cup RequestedNames(fields) :
                 /\ Cardinality({row \in rows : row.column_name = c}) = 1
                 /\ \A row \in rows :
                      row.column_name = c =>
                        row.data_type = IF c \in RequestedNames(fields)
                                          THEN RequestedType(fields, c)
                                          ELSE "INTEGER"

\* Column c of table t holds a non-null value in some row.
HoldsValue(t, c) == \E i \in DOMAIN t.rows : t.rows[i][c] # NULL

\* The check of the i-th column to delete is reached: nothing is asked to be
\* edited, every field to add was added and every column listed before the
\* i-th was dropped.
DeleteReached(n, body, i) ==
  /\ ~body.fieldsToEdit
  /\ addFields(tables, n, body.fieldsToAdd, 0).status = 200
  /\ deleteFields(addFields(tables, n, body.fieldsToAdd, 0).tables, n,
                  SubSeq(body.fieldsToDelete, 1, i - 1), 0).status = 200

\* C6: an editTable request that lists for deletion a column holding a
\* non-null value in at least one row never drops the column and never
\* succeeds, however many rows hold null in it; when the request reaches that
\* column's check it answers ColumnHasData.
C6_ColumnWithDataIsKept ==
  \A n \in TableNames, body \in EditBodies :
    \A i \in DOMAIN body.fieldsToDelete :
      LET c == body.fieldsToDelete[i]
          t == tables[n]
          r == editTable(tables, n, body)
      IN (t.exists /\ HasColumn(t, c) /\ HoldsValue(t, c))
           => /\ r.status # 200
              /\ HasColumn(r.tables[n], c)
              /\ \A k \in DOMAIN t.rows : r.tables[n].rows[k][c] = t.rows[k][c]
              /\ DeleteReached(n, body, i)
                   => (r.status = 400 /\ r.err = "ColumnHasData")

\* An editTable was refused with ColumnHasData on a table whose column
\* `nombre` holds a value in one row and null in another.
C6_Witness ==
  /\ resp.op = "editTable" /\ resp.err = "ColumnHasData"
  /\ resp.table = "inscription_caracterizacion"
  /\ HasColumn(tables[resp.table], "nombre")
  /\ \E i, j \in DOMAIN tables[resp.table].rows :
       /\ tables[resp.table].rows[i]["nombre"] # NULL
       /\ tables[resp.table].rows[j]["nombre"] = NULL

C8_FieldsToEditUnsupported ==
  \A n \in TableNames, body \in EditBodies :
    LET r == editTable(tables, n, body)
    IN body.fieldsToEdit
         => /\ r.status = 400
            /\ r.err = "UnsupportedOperation"
            /\ r.stmts = 0
            /\ r.tables = tables

C8_Witness ==
  /\ resp.op = "editTable" /\ resp.status = 400
  /\ resp.err = "UnsupportedOperation" /\ resp.stmts = 0

\* C9 (as stated): whenever createTable, editTable, an updateRecord variant,
\* createOrUpdateByNaturalKey, deleteRecord or uploadFile answers a validation
\* error, the schema, the rows and the stored files are what they were before
\* the request.
C9_ValidationBeforeAnyMutation ==
  [][(/\ nreq' = nreq + 1
      /\ resp'.op \in {"createTable", "editTable", "updateTableRecord", "updatePiRecord",
                       "createTableRecord", "deleteTableRecord", "uploadFile"}
      /\ resp'.err \in ValidationErrors)
       => (tables' = tables /\ metadata' = metadata
             /\ files' = files /\ disk' = disk)]_vars

\* C9 (amended): the same for createTable, the updateRecord variants,
\* createOrUpdateByNaturalKey, deleteRecord and uploadFile, and for an
\* editTable rejected before its first statement; an editTable rejected later
\* keeps the columns it added or dropped before the rejection and changes
\* nothing else.
C9_ValidationBeforeMutation ==
  [][(nreq' = nreq + 1 /\ resp'.err \in ValidationErrors)
       => /\ (\/ resp'.op \in {"createTable", "updateTableRecord", "updatePiRecord",
                               "createTableRecord", "deleteTableRecord", "uploadFile"}
              \/ resp'.op = "editTable" /\ resp'.stmts = 0)
               => (tables' = tables /\ metadata' = metadata
                     /\ files' = files /\ disk' = disk)
          /\ (resp'.op = "editTable" /\ resp'.stmts > 0)
               => /\ metadata' = metadata /\ files' = files /\ disk' = disk
                  /\ \A n \in TableNames \ {resp'.table} : tables'[n] = tables[n]]_vars

\* An update was rejected for carrying no valid field after its two reads.
C9_Witness ==
  /\ resp.op = "updateTableRecord" /\ resp.status = 400
  /\ resp.err = "NoValidFields" /\ resp.stmts = 2

\* C10: a request of a schema or record operation that names a table outside
\* the three prefixes is rejected with 400 before any statement is issued.
C10_PrefixCheckedBeforeDatabase ==
  (/\ resp.op \in {"createTable", "deleteTable", "editTable", "getTableFields",
                    "updateTableRecord", "updatePiRecord", "createTableRecord",
                    "deleteTableRecord"}
   /\ BadPrefix(resp.table))
    => (resp.status = 400 /\ resp.stmts = 0)

\* ============================================ createTableRecord on pi_ tables
\* Two investment-plan tables whose key columns are plain integers, and the
\* createTableRecord requests on them.
UpsertTables == {"pi_a", "pi_formulacion"}

UpsertTable(name) ==
  [exists |-> TRUE,
   cols |-> <<IdColumn, Column("caracterizacion_id", "INTEGER", ""),
              IF name = "pi_formulacion"
                THEN Column("rel_id_prov", "INTEGER", "")
                ELSE Column("nombre", "STRING", "")>>,
   rows |-> <<>>,
   seq |-> 1]

\* req.body of a createTableRecord request on table `name`.
UpsertBodies(name) ==
  IF name = "pi_formulacion"
    THEN {[caracterizacion_id |-> c, rel_id_prov |-> r] :
            c \in {0, 1}, r \in {Absent, 0, 1, 2}}
    ELSE {[caracterizacion_id |-> c, nombre |-> v] :
            c \in {Absent, 0, 1, 2}, v \in {Absent, NULL, 1, 2}}

InitUpsert ==
  /\ tables = [n \in UpsertTables |-> UpsertTable(n)]
  /\ metadata = {[table_name |-> n, is_primary |-> FALSE] : n \in UpsertTables}
  /\ pending = {}
  /\ files = <<>>
  /\ disk = {}
  /\ tmp = 0
  /\ resp = Answer("none", "", 0, "", 0)
  /\ nreq = 0
  /\ calls = {}
  /\ models = [n \in UpsertTables |-> NoModel]
  /\ preferences = <<>>

\* One createTableRecord request, run from its first statement to its answer.
Upsert ==
  \E n \in UpsertTables :
    \E data \in UpsertBodies(n) :
      LET found == existingRecords(tables, n, data)
      IN \E first \in IF found = {} THEN {0} ELSE found :
           RecordStep(createTableRecord(tables, n, data, first))

NextUpsert == Upsert

\* Requests handled one after the other.
SpecUpsert == InitUpsert /\ [][NextUpsert]_vars

\* The rows of table n whose key columns hold the values of `key`.
RowsWithKey(n, key) ==
  {i \in DOMAIN tables[n].rows :
     \A k \in DOMAIN key : tables[n].rows[i][k] = key[k]}

\* C11: on a pi_ table other than pi_formulacion, requests handled one after
\* the other leave at most one row for each caracterizacion_id, and a request
\* that carries a caracterizacion_id leaves a row that holds the values the
\* request supplied.
C11_OneRowPerCaracterizacionId ==
  /\ \A c \in {0, 1, 2} :
       Cardinality(RowsWithKey("pi_a", [caracterizacion_id |-> c])) <= 1
  /\ \A data \in UpsertBodies("pi_a") :
       LET found == existingRecords(tables, "pi_a", data)
           r == createTableRecord(tables, "pi_a", data,
                                  IF found = {} THEN 0 ELSE CHOOSE i \in found : TRUE)
           rows == r.tables["pi_a"].rows
           mine == {i \in DOMAIN rows :
                      rows[i]["caracterizacion_id"] = data["caracterizacion_id"]}
       IN (data["caracterizacion_id"] # Absent /\ r.answer.status \in {200, 201})
            => /\ Cardinality(mine) = 1
               /\ \A i \in mine :
                    data["nombre"] \notin {Absent, NULL}
                      => rows[i]["nombre"] = data["nombre"]

\* C13: on pi_formulacion, requests handled one after the other leave at most
\* one row for each pair (caracterizacion_id, rel_id_prov), while rows that
\* differ in rel_id_prov alone stay apart.
C13_OneRowPerPair ==
  \A c \in {0, 1}, r \in {0, 1, 2} :
    Cardinality(RowsWithKey("pi_formulacion",
                            [caracterizacion_id |-> c, rel_id_prov |-> r])) <= 1

\* ------------------------------------------------ concurrent createTableRecord
\* A createTableRecord request in two steps: its reads up to the existence
\* SELECT, then its UPDATE or INSERT; requests of other clients run between.
Clients == {1, 2}

RaceBodies == {[caracterizacion_id |-> c, nombre |-> v] : c \in {1, 2}, v \in {1, 2}}

\* A variant of upsertWrite that looks the row up again when it writes.
upsertWriteRechecks(tbls, call) ==
  LET found == existingRecords(tbls, call.table, call.data)
  IN createTableRecord(tbls, call.table, call.data,
                       IF found = {} THEN 0 ELSE CHOOSE i \in found : TRUE)

\* The statements after the existence check, given the row it returned first.
upsertWrite(tbls, call) ==
  createTableRecord(tbls, call.table, call.data, call.first)

UpsertCheck ==
  \E c \in Clients, data \in RaceBodies :
    LET found == existingRecords(tables, "pi_a", data)
    IN /\ nreq + Cardinality(calls) < MaxRequests
       /\ ~\E k \in calls : k.client = c
       /\ \E first \in IF found = {} THEN {0} ELSE found :
            calls' = calls \cup {[client |-> c, table |-> "pi_a",
                                  data |-> data, first |-> first]}
       /\ UNCHANGED <<tables, metadata, pending, files, disk, tmp, resp, nreq, models, preferences>>

UpsertWrite ==
  \E call \in calls :
    LET r == upsertWrite(tables, call)
    IN /\ \A n \in DOMAIN r.tables : r.tables[n].seq <= MaxId + 2
       /\ tables' = r.tables
       /\ resp' = r.answer
       /\ nreq' = nreq + 1
       /\ calls' = calls \ {call}
       /\ UNCHANGED <<metadata, pending, files, disk, tmp, models, preferences>>

NextRace == UpsertCheck \/ UpsertWrite

SpecRace == InitUpsert /\ [][NextRace]_vars

\* C12: the write of a request whose existence check returned no row is an
\* INSERT, whatever the table holds by then: each such write answers 201 and
\* adds a row, so two requests for one key that both checked before either
\* wrote leave two rows for the key.
C12_CheckThenInsertNotAtomic ==
  [][\A call \in calls :
       (call \notin calls' /\ call.first = 0)
         => /\ resp'.status = 201
            /\ Len(tables'["pi_a"].rows) = Len(tables["pi_a"].rows) + 1
            /\ tables'["pi_a"].rows[Len(tables'["pi_a"].rows)]["caracterizacion_id"]
                 = call.data["caracterizacion_id"]]_vars

\* Two rows hold the same caracterizacion_id after two requests raced.
C12_Witness ==
  /\ calls = {}
  /\ nreq = 2
  /\ Cardinality(RowsWithKey("pi_a", [caracterizacion_id |-> 1])) = 2

\* ============================================================ updateRecord
\* A variant of returning that gives the rows as they were before the update.
returningBefore(tbls, table_name, id, keys, data) ==
  SelectSeq(tbls[table_name].rows, LAMBDA r : r["id"] = id)

\* RETURNING * of the UPDATE: the rows it changed, as they stand after it.
returning(tbls, table_name, id, keys, data) ==
  SelectSeq(updateRows(tbls, table_name, id, keys, data).tables[table_name].rows,
            LAMBDA r : r["id"] = id)

\* `record: result[0]` in the 200 answer of updateTableRecord / updatePiRecord.
updatedRecord(tbls, table_name, record_id, data) ==
  returning(tbls, table_name, record_id,
            filteredData(liveColumns(tbls, table_name), data), data)[1]

UpdateOps == {"updateTableRecord", "updatePiRecord"}

\* The handler of either variant.
UpdateOf(op, tbls, table_name, record_id, data) ==
  IF op = "updateTableRecord"
    THEN updateTableRecord(tbls, table_name, record_id, data)
    ELSE updatePiRecord(tbls, table_name, record_id, data)

\* The table is one the variant accepts and the catalog holds.
Updatable(op, n) ==
  /\ tables[n].exists
  /\ HasColumn(tables[n], "id")
  /\ IF op = "updatePiRecord" THEN ~BadPrefix(n) /\ SubSeq(n, 1, 3) = "pi_"
     ELSE ~BadPrefix(n) /\ SubSeq(n, 1, 3) # "pi_"

\* C14: an updateRecord of either variant changes, in the row of the given id,
\* exactly the columns the request names with a value that is neither null
\* nor undefined, and gives them the request's values; every other column of
\* that row, every other row and every other table stay as they were; a
\* request that is not answered 200 changes nothing.
C14_UpdateAppliesOnlyGivenFields ==
  \A op \in UpdateOps, n \in TableNames, id \in RecordIds, data \in Bodies :
    LET r == UpdateOf(op, tables, n, id, data)
        t == tables[n]
        u == r.tables[n]
    IN /\ \A o \in TableNames \ {n} : r.tables[o] = tables[o]
       /\ r.answer.status # 200 => r.tables = tables
       /\ t.exists
            => /\ u.cols = t.cols
               /\ Len(u.rows) = Len(t.rows)
               /\ \A i \in DOMAIN t.rows : \A c \in DOMAIN t.rows[i] :
                    u.rows[i][c] =
                      IF /\ r.answer.status = 200
                         /\ t.rows[i]["id"] = id
                         /\ c \in DOMAIN data
                         /\ data[c] \notin {Absent, NULL}
                        THEN data[c]
                        ELSE t.rows[i][c]

\* An update set `nombre` of row 1 and left the null of row 2 alone.
C14_Witness ==
  /\ resp.op = "updateTableRecord" /\ resp.status = 200
  /\ resp.table = "inscription_caracterizacion"
  /\ \E i, j \in DOMAIN tables[resp.table].rows :
       /\ tables[resp.table].rows[i]["id"] = 1
       /\ tables[resp.table].rows[i]["nombre"] = 2
       /\ tables[resp.table].rows[j]["id"] = 2
       /\ tables[resp.table].rows[j]["nombre"] = NULL

\* C15: on a table the variant accepts, an updateRecord for an id that has no
\* row is answered NotFound; for an id that has a row and a request with no
\* valid field it is answered NoValidFields; neither changes anything; an
\* update answered 200 returns the whole row as it stands after the update.
C15_UpdateErrorsAndReturnedRow ==
  \A op \in UpdateOps, n \in TableNames, id \in RecordIds, data \in Bodies :
    LET r == UpdateOf(op, tables, n, id, data)
        t == tables[n]
        present == \E i \in DOMAIN t.rows : t.rows[i]["id"] = id
        noValidField == \A k \in DOMAIN data :
                          ~HasColumn(t, k) \/ data[k] \in {Absent, NULL}
        rec == updatedRecord(tables, n, id, data)
    IN Updatable(op, n)
         => /\ ~present
                 => (r.answer.status = 404 /\ r.answer.err = "NotFound"
                       /\ r.tables = tables)
            /\ (present /\ noValidField)
                 => (r.answer.status = 400 /\ r.answer.err = "NoValidFields"
                       /\ r.tables = tables)
            /\ r.answer.status = 200
                 => /\ DOMAIN rec = ColNames(t)
                    /\ \E i \in DOMAIN r.tables[n].rows :
                         r.tables[n].rows[i] = rec /\ rec["id"] = id

\* An update of a pi_ table was answered NotFound.
C15_Witness ==
  /\ resp.op = "updatePiRecord" /\ resp.status = 404 /\ resp.err = "NotFound"
  /\ tables[resp.table].exists
  /\ ~\E i \in DOMAIN tables[resp.table].rows : tables[resp.table].rows[i]["id"] = 1

\* ===================================== handlers that go through sequelize.models
\* validTypes of getTableRecordById, getRelatedData and bulkUpdateRecords: the
\* catalog types a model attribute is made for.
modelTypes == {"varchar", "character varying", "text", "integer", "boolean", "date"}

\* columns.reduce(...): the attributes of the model, in catalog order.
tableColumns(tbls, name) ==
  IF name \in DOMAIN tbls /\ tbls[name].exists
    THEN LET kept == SelectSeq(tbls[name].cols, LAMBDA c : c.data_type \in modelTypes)
         IN [i \in DOMAIN kept |-> kept[i].name]
    ELSE <<>>

\* if (sequelize.isDefined(name)) sequelize.model(name) else sequelize.define(...)
modelFor(tbls, mods, name) ==
  IF name \in DOMAIN mods /\ mods[name].defined THEN mods
  ELSE IF name \in DOMAIN mods
    THEN [mods EXCEPT ![name] = [defined |-> TRUE, attrs |-> tableColumns(tbls, name)]]
  ELSE mods

Attrs(mods, name) == {mods[name].attrs[i] : i \in DOMAIN mods[name].attrs}

\* A SELECT of the model's attributes runs: the table is there and has them all
\* (a model defined without a primary key gets an attribute `id`).
selectable(tbls, mods, name) ==
  /\ name \in DOMAIN tbls
  /\ tbls[name].exists
  /\ (Attrs(mods, name) \cup {"id"}) \subseteq ColNames(tbls[name])

\* The instance the model builds of a row: its attributes only.
instance(mods, name, row) == [c \in Attrs(mods, name) \cup {"id"} |-> row[c]]

\* key_column_usage JOIN constraint_column_usage of the table: a row for each
\* key constraint of a column, the primary key naming the table itself.
keyColumns(tbls, table_name) ==
  IF table_name \in DOMAIN tbls /\ tbls[table_name].exists
    THEN LET t == tbls[table_name]
         IN {[column_name |-> t.cols[i].name, related_table |-> table_name] :
               i \in {j \in DOMAIN t.cols : t.cols[j].pk}}
            \cup {[column_name |-> t.cols[i].name, related_table |-> t.cols[i].fk] :
                    i \in {j \in DOMAIN t.cols : t.cols[j].fk # ""}}
    ELSE {}

\* The three `continue` filters of getTableRecordById.
domainAllows(table_name, related) ==
  /\ StartsWith(table_name, "provider_") => StartsWith(related, "provider_")
  /\ StartsWith(table_name, "inscription_") => StartsWith(related, "inscription_")
  /\ StartsWith(table_name, "pi_")
       => (StartsWith(related, "pi_") \/ StartsWith(related, "inscription_")
             \/ StartsWith(related, "provider_"))

\* Object.keys(dataValues).find((col) => col !== 'id'), else 'id'
displayField(mods, name) ==
  LET others == SelectSeq(mods[name].attrs, LAMBDA a : a # "id")
  IN IF others = <<>> THEN "id" ELSE others[1]

\* relatedRecords.map((record) => ({ id, displayValue }))
labels(tbls, mods, name) ==
  [i \in DOMAIN tbls[name].rows |->
     [id |-> tbls[name].rows[i]["id"],
      displayValue |-> tbls[name].rows[i][displayField(mods, name)]]]

\* The loop over the key columns: models are defined for the related tables
\* that pass the filter, and each that has rows gives an entry of relatedData.
\* The loop stops at the first findAll that fails.
RECURSIVE defineAll(_, _, _)
defineAll(tbls, mods, names) ==
  IF names = {} THEN mods
  ELSE LET n == CHOOSE x \in names : TRUE
       IN defineAll(tbls, modelFor(tbls, mods, n), names \ {n})

resolve(tbls, mods, table_name, filtered) ==
  LET fields == {f \in keyColumns(tbls, table_name) :
                   ~filtered \/ domainAllows(table_name, f.related_table)}
      related == {f.related_table : f \in fields}
      after == defineAll(tbls, mods, related)
      ok == \A n \in related : selectable(tbls, after, n)
      shown == {f \in fields : tbls[f.related_table].rows # <<>>}
  IN [ok |-> ok,
      models |-> after,
      relatedData |->
        IF ok
          THEN [c \in {f.column_name : f \in shown} |->
                  LET f == CHOOSE g \in shown : g.column_name = c
                  IN labels(tbls, after, f.related_table)]
          ELSE <<>>]

ReadOutcome(mods, op, table_name, status, err, record, relatedData) ==
  [models |-> mods, answer |-> Answer(op, table_name, status, err, 1),
   record |-> record, relatedData |-> relatedData]

getTableRecordById(tbls, mods, table_name, record_id) ==
  LET op == "getTableRecordById"
      defined == table_name \in DOMAIN mods /\ mods[table_name].defined
      withTable == modelFor(tbls, mods, table_name)
      found == SelectSeq(tbls[table_name].rows, LAMBDA r : r["id"] = record_id)
      rel == resolve(tbls, withTable, table_name, TRUE)
  IN IF ~defined /\ (table_name \notin DOMAIN tbls \/ ~tbls[table_name].exists)
       THEN ReadOutcome(mods, op, table_name, 404, "NotFound", <<>>, <<>>)
     ELSE IF ~selectable(tbls, withTable, table_name)
       THEN ReadOutcome(withTable, op, table_name, 500, "InternalError", <<>>, <<>>)
     ELSE IF found = <<>>
       THEN ReadOutcome(withTable, op, table_name, 404, "NotFound", <<>>, <<>>)
     ELSE IF ~rel.ok
       THEN ReadOutcome(rel.models, op, table_name, 500, "InternalError", <<>>, <<>>)
     ELSE ReadOutcome(rel.models, op, table_name, 200, "",
                      instance(withTable, table_name, found[1]), rel.relatedData)

getRelatedData(tbls, mods, table_name) ==
  LET op == "getRelatedData"
      rel == resolve(tbls, mods, table_name, FALSE)
  IN IF ~rel.ok
       THEN ReadOutcome(rel.models, op, table_name, 500, "InternalError", <<>>, <<>>)
       ELSE ReadOutcome(rel.models, op, table_name, 200, "", <<>>, rel.relatedData)

\* Model.create(values): INSERT of the given values that name an attribute,
\* the key drawn from the sequence. `listed` says whether the statement names
\* every attribute of the model in its RETURNING clause or asks for `*`, which
\* depends on the release of the library.
create(tbls, mods, table_name, data, listed) ==
  LET t == tbls[table_name]
      keys == {k \in DOMAIN data : k \in Attrs(mods, table_name) /\ data[k] # Absent}
      named == IF listed THEN Attrs(mods, table_name) ELSE keys
      row == [c \in ColNames(t) |->
                IF c \in keys THEN data[c] ELSE IF c = "id" THEN t.seq ELSE NULL]
      after == [tbls EXCEPT ![table_name] =
                  [t EXCEPT !.rows = Append(@, row), !.seq = @ + 1]]
  IN IF ~t.exists \/ ~(named \subseteq ColNames(t)) \/ ~HasColumn(t, "id")
       THEN [ok |-> FALSE, tables |-> tbls]
     ELSE IF \/ \E i \in DOMAIN t.rows : t.rows[i]["id"] = row["id"]
             \/ ~FkHolds(after, after[table_name], row)
       THEN [ok |-> FALSE, tables |-> tbls]
     ELSE [ok |-> TRUE, tables |-> after]

WriteOutcome(tbls, mods, op, table_name, status, err, stmts) ==
  [tables |-> tbls, models |-> mods, answer |-> Answer(op, table_name, status, err, stmts)]

\* addRecord: `refs` are the keys of the body whose value is an object that
\* carries relatedTable; the statement built for such a key interpolates the
\* object itself and is rejected by the database, and a null value has no
\* property to read.
addRecord(tbls, mods, table_name, data, refs, listed) ==
  LET op == "addRecord"
      given == {k \in DOMAIN data : data[k] # Absent}
      made == create(tbls, mods, table_name, data, listed)
  IN IF ~prefixedTableName(table_name)
       THEN WriteOutcome(tbls, mods, op, table_name, 400, "InvalidName", 0)
     ELSE IF ~mods[table_name].defined
       THEN WriteOutcome(tbls, mods, op, table_name, 500, "InternalError", 0)
     ELSE IF \E k \in given : data[k] = NULL \/ k \in refs
       THEN WriteOutcome(tbls, mods, op, table_name, 500, "InternalError", 1)
     ELSE IF ~made.ok
       THEN WriteOutcome(tbls, mods, op, table_name, 500, "InternalError", 1)
     ELSE WriteOutcome(made.tables, mods, op, table_name, 201, "", 1)

\* Model.update(updates, { where: { id: recordIds } }): one UPDATE of the
\* given values that name an attribute; no statement when none does. `id` is
\* an attribute like any other: the primary key must stay unique, and a
\* foreign key that references a changed id follows it (onUpdate: 'CASCADE').
update(tbls, mods, table_name, recordIds, updates) ==
  LET t == tbls[table_name]
      keys == {k \in DOMAIN updates :
                 k \in Attrs(mods, table_name) /\ updates[k] # Absent}
      hit == {i \in DOMAIN t.rows : t.rows[i]["id"] \in recordIds}
      rows == [i \in DOMAIN t.rows |->
                 IF i \in hit
                   THEN [c \in DOMAIN t.rows[i] |->
                           IF c \in keys THEN updates[c] ELSE t.rows[i][c]]
                   ELSE t.rows[i]]
      rekeyed == "id" \in keys /\ hit # {}
      taken == rekeyed /\ \E i, j \in DOMAIN rows : i # j /\ rows[i]["id"] = rows[j]["id"]
      Follow(o, r) ==
        [c \in DOMAIN r |->
           IF /\ rekeyed
              /\ ColOf(tbls[o], c).fk = table_name
              /\ \E i \in hit : t.rows[i]["id"] = r[c]
             THEN updates["id"] ELSE r[c]]
      after == [o \in DOMAIN tbls |->
                  IF o = table_name THEN [t EXCEPT !.rows = rows]
                  ELSE [tbls[o] EXCEPT !.rows = [i \in DOMAIN @ |-> Follow(o, @[i])]]]
  IN IF keys = {} THEN [ok |-> TRUE, tables |-> tbls]
     ELSE IF ~t.exists \/ ~(keys \cup {"id"} \subseteq ColNames(t))
       THEN [ok |-> FALSE, tables |-> tbls]
     ELSE IF taken \/ \E i \in hit : ~FkHolds(after, after[table_name], rows[i])
       THEN [ok |-> FALSE, tables |-> tbls]
     ELSE [ok |-> TRUE, tables |-> after]

bulkUpdateRecords(tbls, mods, table_name, recordIds, updates) ==
  LET op == "bulkUpdateRecords"
      defined == mods[table_name].defined
      withTable == modelFor(tbls, mods, table_name)
      done == update(tbls, withTable, table_name, recordIds, updates)
  IN IF ~defined /\ ~tbls[table_name].exists
       THEN WriteOutcome(tbls, mods, op, table_name, 404, "NotFound", 1)
     ELSE IF ~done.ok
       THEN WriteOutcome(tbls, withTable, op, table_name, 500, "InternalError", 1)
     ELSE WriteOutcome(done.tables, withTable, op, table_name, 200, "", 1)

\* ---------------------------------------------------------- getTableRecords
UpperCase == "ABCDEFGHIJKLMNOPQRSTUVWXYZ"
LowerCase == "abcdefghijklmnopqrstuvwxyz"

\* The small letter of each capital letter.
Lowered ==
  [c \in {SubSeq(UpperCase, i, i) : i \in 1..Len(UpperCase)} |->
     LET i == CHOOSE j \in 1..Len(UpperCase) : SubSeq(UpperCase, j, j) = c
     IN SubSeq(LowerCase, i, i)]

\* String.prototype.toLowerCase, on names written in ASCII
RECURSIVE toLowerCase(_)
toLowerCase(s) ==
  IF s = "" THEN ""
  ELSE LET c == SubSeq(s, 1, 1)
       IN (IF c \in DOMAIN Lowered THEN Lowered[c] ELSE c)
          \o toLowerCase(SubSeq(s, 2, Len(s)))

\* A variant of fieldInCurrentTable that compares the names as they are.
fieldInCurrentTableExact(t, key) ==
  LET hits == SelectSeq(t.cols, LAMBDA c : c.name = key)
  IN IF hits = <<>> THEN "" ELSE hits[1].name

\* fields.find((field) => field.column_name.toLowerCase() === key.toLowerCase())
\* ("" = undefined)
fieldInCurrentTable(t, key) ==
  LET hits == SelectSeq(t.cols, LAMBDA c : toLowerCase(c.name) = toLowerCase(key))
  IN IF hits = <<>> THEN "" ELSE hits[1].name

\* A variant of joined without the condition "Estado" IN (1, 2).
joinedAnyEstado(tbls, table_name, estado) ==
  LET c == tbls["inscription_caracterizacion"]
  IN SelectSeq(tbls[table_name].rows,
       LAMBDA r : \E i \in DOMAIN c.rows :
         /\ c.rows[i]["id"] = r["caracterizacion_id"]
         /\ estado # Absent => c.rows[i]["Estado"] = estado)

\* The rows the INNER JOIN of a pi_ table with inscription_caracterizacion
\* keeps: those whose caracterizacion_id names a row with "Estado" 1 or 2,
\* and the value the filter Estado asks for when there is one.
joined(tbls, table_name, estado) ==
  LET c == tbls["inscription_caracterizacion"]
  IN SelectSeq(tbls[table_name].rows,
       LAMBDA r : \E i \in DOMAIN c.rows :
         /\ c.rows[i]["id"] = r["caracterizacion_id"]
         /\ c.rows[i]["Estado"] \in {1, 2}
         /\ estado # Absent => c.rows[i]["Estado"] = estado)

\* getTableRecords: `filters` gives each key of the query string its value,
\* Absent for a key the query does not carry.
getTableRecords(tbls, table_name, filters) ==
  LET op == "getTableRecords"
      t == tbls[table_name]
      isPiTable == StartsWith(table_name, "pi_")
      given == {k \in DOMAIN filters : filters[k] # Absent}
      field == [k \in given |-> fieldInCurrentTable(t, k)]
      own == {k \in given : ~(isPiTable /\ k = "Estado") /\ field[k] # ""}
      joins == /\ "inscription_caracterizacion" \in DOMAIN tbls
               /\ tbls["inscription_caracterizacion"].exists
               /\ HasColumn(tbls["inscription_caracterizacion"], "Estado")
               /\ HasColumn(tbls["inscription_caracterizacion"], "id")
               /\ HasColumn(t, "caracterizacion_id")
      from == IF isPiTable
                THEN joined(tbls, table_name,
                            IF "Estado" \in given THEN filters["Estado"] ELSE Absent)
                ELSE t.rows
      records == SelectSeq(from, LAMBDA r : \A k \in own : r[field[k]] = filters[k])
  IN IF ~prefixedTableName(table_name)
       THEN [answer |-> Answer(op, table_name, 400, "InvalidName", 0), records |-> <<>>]
     ELSE IF ~t.exists \/ (isPiTable /\ ~joins)
               \/ ~TypesFit(t, {field[k] : k \in own})
       THEN [answer |-> Answer(op, table_name, 500, "InternalError", 2), records |-> <<>>]
     ELSE [answer |-> Answer(op, table_name, 200, "", 2), records |-> records]

\* ------------------------------------------- requests that go through models
RegistryTables == {"pi_a", "pi_b", "inscription_b"}

\* pi_a was created with a DECIMAL and a VARCHAR(255) field and holds two
\* rows; pi_b and inscription_b each hold two rows whose plan_id names a row
\* of pi_a; one file was uploaded for pi_b with caracterizacion_id 1.
RegistryTable(name) ==
  IF name = "pi_a"
    THEN [exists |-> TRUE,
          cols |-> <<IdColumn, Column("monto", "DECIMAL", ""),
                     Column("nombre", "STRING", "")>>,
          rows |-> <<[id |-> 1, monto |-> 1, nombre |-> 2],
                     [id |-> 2, monto |-> 2, nombre |-> 1]>>,
          seq |-> 3]
    ELSE [exists |-> TRUE,
          cols |-> <<IdColumn, Column("plan_id", "INTEGER", "pi_a")>>,
          rows |-> <<[id |-> 1, plan_id |-> 1], [id |-> 2, plan_id |-> 2]>>,
          seq |-> 3]

InitRegistry ==
  /\ tables = [n \in RegistryTables |-> RegistryTable(n)]
  /\ metadata = {[table_name |-> n, is_primary |-> FALSE] : n \in RegistryTables}
  /\ pending = {}
  /\ files = <<[id |-> 1, record_id |-> 1, table_name |-> "pi_b",
                 name |-> OriginalName,
                 file_path |-> <<"/uploads", "pi_b", 1, OriginalName>>,
                 source |-> "unknown"]>>
  /\ disk = {<<"inscription_caracterizacion", 1, OriginalName>>}
  /\ tmp = 0
  /\ resp = Answer("none", "", 0, "", 0)
  /\ nreq = 0
  /\ calls = {}
  /\ models = [n \in RegistryTables |-> NoModel]
  /\ preferences = <<>>

\* editTable requests that add the column nombre or drop it.
RegistryEdits ==
  {EditBody(FALSE, <<Field("nombre", "TEXT", "", "")>>, <<>>),
   EditBody(FALSE, <<>>, <<"nombre">>)}

RegistryBodies ==
  {[nombre |-> v, plan_id |-> p] : v \in {Absent, NULL, 1}, p \in {Absent, 1, 3}}

ReadStep(r) ==
  /\ nreq < MaxRequests
  /\ models' = r.models
  /\ resp' = r.answer
  /\ nreq' = nreq + 1
  /\ UNCHANGED <<tables, metadata, pending, files, disk, tmp, calls, preferences>>

WriteStep(r) ==
  /\ nreq < MaxRequests
  /\ \A n \in DOMAIN r.tables : r.tables[n].seq <= MaxId + 2
  /\ tables' = r.tables
  /\ models' = r.models
  /\ resp' = r.answer
  /\ nreq' = nreq + 1
  /\ UNCHANGED <<metadata, pending, files, disk, tmp, calls, preferences>>

GetTableRecordById ==
  \E n \in RegistryTables, id \in RecordIds :
    ReadStep(getTableRecordById(tables, models, n, id))

GetRelatedData ==
  \E n \in RegistryTables : ReadStep(getRelatedData(tables, models, n))

AddRecord ==
  \E n \in RegistryTables, data \in RegistryBodies,
     refs \in SUBSET {"plan_id"}, listed \in BOOLEAN :
    WriteStep(addRecord(tables, models, n, data, refs, listed))

BulkUpdateRecords ==
  \E n \in RegistryTables, recordIds \in {{1}, {1, 2}}, updates \in RegistryBodies :
    WriteStep(bulkUpdateRecords(tables, models, n, recordIds, updates))

\* The keys of the query strings: a column name in capitals, one as it is
\* written in the catalog, and a name no table has.
FilterKeys == {"NOMBRE", "plan_id", "otro"}
Filters == [FilterKeys -> {Absent} \cup Values]

GetTableRecords ==
  \E n \in RegistryTables, filters \in Filters :
    LET r == getTableRecords(tables, n, filters)
    IN /\ nreq < MaxRequests
       /\ resp' = r.answer
       /\ nreq' = nreq + 1
       /\ UNCHANGED <<tables, metadata, pending, files, disk, tmp, calls, models, preferences>>

EditRegistryTable ==
  \E n \in RegistryTables, body \in RegistryEdits :
    LET r == editTable(tables, n, body)
    IN /\ nreq < MaxRequests
       /\ tables' = r.tables
       /\ resp' = Answer("editTable", n, r.status, r.err, r.stmts)
       /\ nreq' = nreq + 1
       /\ UNCHANGED <<metadata, pending, files, disk, tmp, calls, models, preferences>>

NextRegistry ==
  \/ GetTableRecordById
  \/ GetRelatedData
  \/ AddRecord
  \/ BulkUpdateRecords
  \/ GetTableRecords
  \/ EditRegistryTable
  \/ DeleteTableRecord
  \/ DeleteTableCount
  \/ DeleteTableDrop

SpecRegistry == InitRegistry /\ [][NextRegistry]_vars

\* ------------------------------------------------------------------ C16
\* C16: getTableRecordById of an id the table does not hold answers NotFound;
\* of an id it holds, relatedData has, for each foreign key of the table to a
\* table of the same domain prefix, an entry under the foreign-key column with
\* a pair for every row of the related table, whose displayValue is the value
\* of the related table's first non-id column in catalog order (id when the
\* table has no other column).
C16_RelatedDataLabels ==
  LET SameDomain(a, b) ==
        \E p \in {"inscription_", "provider_", "pi_"} :
          StartsWith(a, p) /\ StartsWith(b, p)
      FirstNonId(t) ==
        LET others == SelectSeq(t.cols, LAMBDA c : c.name # "id")
        IN IF others = <<>> THEN "id" ELSE others[1].name
  IN \A n \in RegistryTables, id \in RecordIds :
       LET r == getTableRecordById(tables, models, n, id)
           t == tables[n]
           held == \E i \in DOMAIN t.rows : t.rows[i]["id"] = id
       IN /\ ~held => r.answer.err = "NotFound"
          /\ held =>
               \A i \in DOMAIN t.cols :
                 (t.cols[i].fk # "" /\ SameDomain(n, t.cols[i].fk)) =>
                   LET rel == tables[t.cols[i].fk]
                   IN /\ r.answer.status = 200
                      /\ t.cols[i].name \in DOMAIN r.relatedData
                      /\ r.relatedData[t.cols[i].name] =
                           [j \in DOMAIN rel.rows |->
                              [id |-> rel.rows[j]["id"],
                               displayValue |-> rel.rows[j][FirstNonId(rel)]]]

\* ------------------------------------------------------------------ C17
\* C17: the relation resolver, in getTableRecordById and in getRelatedData,
\* resolves for a provider_ table only provider_ tables, for an inscription_
\* table only inscription_ tables, and for a pi_ table only pi_, inscription_
\* or provider_ tables.
C17_ResolverKeepsDomain ==
  \A n \in RegistryTables :
    LET kept(rd) ==
          \A c \in DOMAIN rd : \A f \in keyColumns(tables, n) :
            f.column_name = c =>
              /\ StartsWith(n, "provider_") => StartsWith(f.related_table, "provider_")
              /\ StartsWith(n, "inscription_")
                   => StartsWith(f.related_table, "inscription_")
              /\ StartsWith(n, "pi_") => prefixedTableName(f.related_table)
    IN /\ kept(getRelatedData(tables, models, n).relatedData)
       /\ \A id \in RecordIds :
            kept(getTableRecordById(tables, models, n, id).relatedData)

\* ------------------------------------------------------------------ C18
\* C18: getTableRecordById, the relation resolution and bulkUpdateRecords
\* work from the columns the catalog reports at the time of the request: the
\* model each of them uses for the table has the attributes of the catalog's
\* columns now, whatever earlier requests saw.
C18_SchemaReadAtEachRequest ==
  \A n \in RegistryTables :
    /\ \A id \in RecordIds :
         LET r == getTableRecordById(tables, models, n, id)
         IN r.models[n].defined => r.models[n].attrs = tableColumns(tables, n)
    /\ \A updates \in RegistryBodies :
         LET r == bulkUpdateRecords(tables, models, n, {1}, updates)
         IN r.models[n].defined => r.models[n].attrs = tableColumns(tables, n)
    /\ LET r == getRelatedData(tables, models, n)
       IN \A m \in RegistryTables :
            (r.models[m].defined /\ ~models[m].defined) =>
              r.models[m].attrs = tableColumns(tables, m)

\* ------------------------------------------------------------------ C19
\* C19: addRecord on a table whose model is defined, with a field that
\* carries a reference to a row the related table does not hold, answers
\* RelatedRecordNotFound and inserts nothing.
C19_RelatedRecordChecked ==
  \A n \in RegistryTables, data \in RegistryBodies, listed \in BOOLEAN :
    (/\ models[n].defined
     /\ HasColumn(tables[n], "plan_id")
     /\ data["plan_id"] # Absent
     /\ ~\E j \in DOMAIN tables["pi_a"].rows :
           tables["pi_a"].rows[j]["id"] = data["plan_id"])
      => LET r == addRecord(tables, models, n, data, {"plan_id"}, listed)
         IN r.answer.err = "RelatedRecordNotFound" /\ r.tables = tables

\* ------------------------------------------------------------------ C20
\* C20: getTableRecords on an inscription_ or provider_ table answers exactly
\* the rows that satisfy, for every filter key that matches a column of the
\* table without regard to case, the equality of that column with the
\* filter's value; keys that match no column change nothing.
C20_FiltersAreConjunction ==
  \A n \in RegistryTables :
    (tables[n].exists /\ (StartsWith(n, "inscription_") \/ StartsWith(n, "provider_")))
      => LET t == tables[n]
             matches == {<<k, c>> \in FilterKeys \X ColNames(t) :
                           toLowerCase(c) = toLowerCase(k)}
         IN \A filters \in Filters :
              LET r == getTableRecords(tables, n, filters)
                  wanted(row) ==
                    \A m \in matches : filters[m[1]] # Absent => row[m[2]] = filters[m[1]]
                  known == [k \in FilterKeys |->
                              IF \E m \in matches : m[1] = k THEN filters[k] ELSE Absent]
              IN /\ r.answer.status = 200
                 /\ r.records = SelectSeq(t.rows, wanted)
                 /\ r.records = getTableRecords(tables, n, known).records

\* A list request was answered on inscription_b while its column nombre, which
\* the filter key NOMBRE matches, holds 1 in one row and no value in another.
C20_Witness ==
  /\ resp.op = "getTableRecords"
  /\ resp.table = "inscription_b"
  /\ resp.status = 200
  /\ HasColumn(tables["inscription_b"], "nombre")
  /\ \E i, j \in DOMAIN tables["inscription_b"].rows :
       /\ tables["inscription_b"].rows[i]["nombre"] = 1
       /\ tables["inscription_b"].rows[j]["nombre"] = NULL
  /\ getTableRecords(tables, "inscription_b",
                     [k \in FilterKeys |-> IF k = "NOMBRE" THEN 1 ELSE Absent]).records
       # tables["inscription_b"].rows

\* ===================================================== listing a pi_ table
\* inscription_caracterizacion carries the status column "Estado", of which
\* 1 and 2 are the states the list shows; pi_a was created with the fields
\* caracterizacion_id and Estado, both INTEGER.
InitList ==
  /\ tables =
       [n \in {"inscription_caracterizacion", "pi_a"} |->
          IF n = "pi_a"
            THEN [exists |-> TRUE,
                  cols |-> <<IdColumn, Column("caracterizacion_id", "INTEGER", ""),
                             Column("Estado", "INTEGER", "")>>,
                  rows |-> <<[id |-> 1, caracterizacion_id |-> 2, Estado |-> 1]>>,
                  seq |-> 2]
            ELSE [exists |-> TRUE,
                  cols |-> <<IdColumn, Column("Estado", "INTEGER", "")>>,
                  rows |-> <<[id |-> 1, Estado |-> 1], [id |-> 2, Estado |-> 3]>>,
                  seq |-> 3]]
  /\ metadata = {[table_name |-> n, is_primary |-> FALSE] : n \in DOMAIN tables}
  /\ pending = {}
  /\ files = <<>>
  /\ disk = {}
  /\ tmp = 0
  /\ resp = Answer("none", "", 0, "", 0)
  /\ nreq = 0
  /\ calls = {}
  /\ models = [n \in DOMAIN tables |-> NoModel]
  /\ preferences = <<>>

ListRecords ==
  \E n \in DOMAIN tables,
     filters \in [{"Estado", "caracterizacion_id"} -> {Absent, 1, 2, 3}] :
    LET r == getTableRecords(tables, n, filters)
    IN /\ nreq < MaxRequests
       /\ resp' = r.answer
       /\ nreq' = nreq + 1
       /\ UNCHANGED <<tables, metadata, pending, files, disk, tmp, calls, models,
                      preferences>>

SetEstado ==
  \E id \in RecordIds, e \in {1, 2, 3} :
    RecordStep(updateTableRecord(tables, "inscription_caracterizacion", id,
                                 [Estado |-> e]))

CreatePiRecord ==
  \E c \in {1, 2, 3}, e \in {Absent, 1, 2} :
    LET data == [caracterizacion_id |-> c, Estado |-> e]
        found == existingRecords(tables, "pi_a", data)
    IN \E first \in IF found = {} THEN {0} ELSE found :
         RecordStep(createTableRecord(tables, "pi_a", data, first))

NextList == ListRecords \/ SetEstado \/ CreatePiRecord

SpecList == InitList /\ [][NextList]_vars

\* ------------------------------------------------------------------ C21
\* C21: getTableRecords on a pi_ table answers the rows of the table that
\* have an inscription_caracterizacion row through caracterizacion_id; the
\* filter key Estado with value v keeps the rows whose characterization has
\* status v, for every v, whatever the Estado column of the pi_ table holds;
\* without a filter every row that has a characterization is answered.
C21_JoinedToCharacterization ==
  \A filters \in [{"Estado", "caracterizacion_id"} -> {Absent, 1, 2, 3}] :
    LET r == getTableRecords(tables, "pi_a", filters)
        c == tables["inscription_caracterizacion"]
        wanted(row) ==
          /\ \E i \in DOMAIN c.rows :
               /\ c.rows[i]["id"] = row["caracterizacion_id"]
               /\ filters["Estado"] # Absent => c.rows[i]["Estado"] = filters["Estado"]
          /\ filters["caracterizacion_id"] # Absent
               => row["caracterizacion_id"] = filters["caracterizacion_id"]
    IN r.answer.status = 200 /\ r.records = SelectSeq(tables["pi_a"].rows, wanted)

\* C21, as the handler has it: the rows answered are those whose
\* characterization has status 1 or 2; the filter key Estado with value v
\* keeps among them the rows whose characterization has status v, whatever
\* the Estado column of the pi_ table holds; without a filter every row
\* whose characterization has status 1 or 2 is answered.
C21_JoinedToShownCharacterization ==
  \A filters \in [{"Estado", "caracterizacion_id"} -> {Absent, 1, 2, 3}] :
    LET r == getTableRecords(tables, "pi_a", filters)
        c == tables["inscription_caracterizacion"]
        wanted(row) ==
          /\ \E i \in DOMAIN c.rows :
               /\ c.rows[i]["id"] = row["caracterizacion_id"]
               /\ c.rows[i]["Estado"] \in {1, 2}
               /\ filters["Estado"] # Absent => c.rows[i]["Estado"] = filters["Estado"]
          /\ filters["caracterizacion_id"] # Absent
               => row["caracterizacion_id"] = filters["caracterizacion_id"]
    IN r.answer.status = 200 /\ r.records = SelectSeq(tables["pi_a"].rows, wanted)

\* pi_a was listed while it holds a row under a characterization of status 3
\* and a row whose own Estado differs from its characterization's status 1
\* or 2.
C21_Witness ==
  /\ resp.op = "getTableRecords"
  /\ resp.table = "pi_a"
  /\ resp.status = 200
  /\ \E i, j \in DOMAIN tables["pi_a"].rows :
       \E k, l \in DOMAIN tables["inscription_caracterizacion"].rows :
         LET p == tables["pi_a"].rows
             c == tables["inscription_caracterizacion"].rows
         IN /\ c[k]["id"] = p[i]["caracterizacion_id"] /\ c[k]["Estado"] = 3
            /\ c[l]["id"] = p[j]["caracterizacion_id"] /\ c[l]["Estado"] \in {1, 2}
            /\ p[j]["Estado"] # c[l]["Estado"]

\* ------------------------------------------------------------------ C23
\* C23: uploadFile for a pi_ table without caracterizacion_id answers a
\* validation error, writes nothing under the upload root and inserts no row
\* of files.
C23_PiUploadNeedsCaracterizacionId ==
  \A n \in TableNames, id \in RecordIds, up \in Uploads :
    (StartsWith(n, "pi_") /\ up.caracterizacion_id = Absent)
      => LET r == uploadFile(files, disk, n, id, up)
         IN /\ r.answer.status = 400
            /\ r.answer.err \in ValidationErrors
            /\ r.disk = disk
            /\ r.files = files

\* An upload for pi_a without caracterizacion_id was refused after an
\* earlier upload had stored a file.
C23_Witness ==
  /\ resp.op = "uploadFile"
  /\ resp.table = "pi_a"
  /\ resp.status = 400
  /\ tmp > 0
  /\ files # <<>>
  /\ disk # {}

\* ------------------------------------------------------------------ C24
\* C24: the file_path of every row of files an uploadFile inserted names the
\* place the file was stored at: /uploads/<table>/<record_id>/<name> for an
\* inscription_ or provider_ table, /uploads/inscription_caracterizacion/
\* <caracterizacion_id>/<name> for a pi_ table, the row's record_id being the
\* id of the storage path.
C24_PersistedPathIsStoredPath ==
  \A i \in DOMAIN files :
    LET file == files[i]
        dir == IF StartsWith(file.table_name, "pi_")
                 THEN "inscription_caracterizacion" ELSE file.table_name
    IN /\ file.file_path = <<"/uploads", dir, file.record_id, file.name>>
       /\ <<dir, file.record_id, file.name>> \in disk

\* ================================================ files, CSV and preferences
\* uploadCsv: `results` are the rows parsed from the file. The temporary file
\* is unlinked in the `finally` of the insert and nowhere else, so it stays
\* (leaked = 1) when the handler answers before it parses the file.
\* Table.bulkCreate inserts the rows by one statement, all of them or none.
uploadCsv(tbls, mods, table_name, hasFile, results, listed) ==
  LET op == "uploadCsv"
      defined == [mods EXCEPT ![table_name] =
                    [defined |-> TRUE, attrs |-> tableColumns(tbls, table_name)]]
      RECURSIVE bulkCreate(_, _)
      bulkCreate(t, rest) ==
        IF rest = <<>> THEN [ok |-> TRUE, tables |-> t]
        ELSE LET one == create(t, defined, table_name, Head(rest), listed)
             IN IF one.ok THEN bulkCreate(one.tables, Tail(rest))
                ELSE [ok |-> FALSE, tables |-> tbls]
      made == bulkCreate(tbls, results)
      Out(t, m, leaked, status, err, stmts) ==
        [tables |-> t, models |-> m, leaked |-> leaked,
         answer |-> Answer(op, table_name, status, err, stmts)]
  IN IF ~hasFile THEN Out(tbls, mods, 0, 400, "MissingField", 0)
     ELSE IF ~tbls[table_name].exists THEN Out(tbls, mods, 1, 404, "NotFound", 1)
     ELSE IF ~made.ok THEN Out(tbls, defined, 0, 500, "InternalError", 3)
     ELSE Out(made.tables, defined, 0, 201, "", 3)

UploadCsv ==
  \E n \in TableNames, hasFile \in BOOLEAN, listed \in BOOLEAN,
     results \in SeqsUpTo({[nombre |-> 1], [nombre |-> 2]}, 1) :
    LET r == uploadCsv(tables, models, n, hasFile, results, listed)
    IN /\ nreq < MaxRequests
       /\ \A t \in DOMAIN r.tables : r.tables[t].seq <= MaxId + 2
       /\ tables' = r.tables
       /\ models' = r.models
       /\ tmp' = tmp + r.leaked
       /\ resp' = r.answer
       /\ nreq' = nreq + 1
       /\ UNCHANGED <<metadata, pending, files, disk, calls, preferences>>

\* deleteFile: `linked` says whether the folder `uploads` of the application
\* is the upload root /var/data/uploads, which the deployment decides. The
\* row destroyed leaves its place (table_name "") so that ids are not reused.
deleteFile(f, d, file_id, record_id, linked) ==
  LET op == "deleteFile"
      file == f[file_id]
      filePath == <<file.file_path[2], file.file_path[3], file.file_path[4]>>
      gone == [id |-> file_id, record_id |-> NULL, table_name |-> "", name |-> "",
               file_path |-> <<>>, source |-> ""]
      Out(ff, dd, status, err, stmts) ==
        [files |-> ff, disk |-> dd, answer |-> Answer(op, "", status, err, stmts)]
  IN IF file_id \notin DOMAIN f \/ f[file_id].table_name = ""
       THEN Out(f, d, 404, "NotFound", 1)
     ELSE IF ~prefixedTableName(file.table_name)
       THEN Out(f, d, 400, "InvalidName", 1)
     ELSE Out(IF file.record_id = record_id THEN [f EXCEPT ![file_id] = gone] ELSE f,
              IF linked THEN d \ {filePath} ELSE d,
              200, "", 2)

DeleteFile ==
  \E file_id \in RecordIds, record_id \in RecordIds, linked \in BOOLEAN :
    LET r == deleteFile(files, disk, file_id, record_id, linked)
    IN /\ nreq < MaxRequests
       /\ files' = r.files
       /\ disk' = r.disk
       /\ resp' = r.answer
       /\ nreq' = nreq + 1
       /\ UNCHANGED <<tables, metadata, pending, tmp, calls, models, preferences>>

\* downloadZip: the archive holds the files of the folder
\* uploads/<table_name>/<record_id> of the application.
downloadZip(d, table_name, record_id, linked) ==
  LET op == "downloadZip"
      folder == {q \in d : linked /\ q[1] = table_name /\ q[2] = record_id}
  IN IF ~prefixedTableName(table_name)
       THEN [answer |-> Answer(op, table_name, 400, "InvalidName", 0), entries |-> {}]
     ELSE IF folder = {}
       THEN [answer |-> Answer(op, table_name, 404, "NotFound", 0), entries |-> {}]
     ELSE [answer |-> Answer(op, table_name, 200, "", 0),
           entries |-> {q[3] : q \in folder}]

DownloadZip ==
  \E n \in TableNames, record_id \in RecordIds, linked \in BOOLEAN :
    /\ nreq < MaxRequests
    /\ resp' = downloadZip(disk, n, record_id, linked).answer
    /\ nreq' = nreq + 1
    /\ UNCHANGED <<tables, metadata, pending, files, disk, tmp, calls, models,
                   preferences>>

\* FieldPreference.create: a row {table_name, visible_columns} is added; the
\* table is described with no constraint on table_name.
FieldPreferenceCreate(prefs, table_name, visible_columns) ==
  Append(prefs, [id |-> Len(prefs) + 1, table_name |-> table_name,
                 visible_columns |-> visible_columns])

\* The statements of saveFieldPreferences after its findOne, `preference`
\* being the row findOne gave (0 = null).
saveFieldPreferences(prefs, table_name, visible_columns, preference) ==
  [preferences |->
     IF preference # 0
       THEN [prefs EXCEPT ![preference].visible_columns = visible_columns]
       ELSE FieldPreferenceCreate(prefs, table_name, visible_columns),
   answer |-> Answer("saveFieldPreferences", table_name, 200, "", 2)]

\* The body getFieldPreferences answers with, `preference` being the row its
\* findOne gave (0 = null).
getFieldPreferences(prefs, table_name, preference) ==
  IF preference # 0 THEN prefs[preference].visible_columns ELSE <<>>

\* saveFieldPreferences in its two steps: the check of the body and the
\* findOne, then the save or the create. A body whose visible_columns is not
\* an array is answered 400 at once.
SaveFieldPreferences ==
  \/ \E c \in Clients, n \in {"pi_a", "users"}, isArray \in BOOLEAN,
        visible_columns \in {<<"id">>, <<"nombre", "id">>} :
       LET rows == {i \in DOMAIN preferences : preferences[i].table_name = n}
       IN /\ nreq + Cardinality(calls) < MaxRequests
          /\ ~\E k \in calls : k.client = c
          /\ IF isArray
               THEN /\ \E preference \in IF rows = {} THEN {0} ELSE rows :
                         calls' = calls \cup {[client |-> c, table |-> n,
                                               data |-> visible_columns,
                                               first |-> preference]}
                    /\ UNCHANGED <<resp, nreq>>
               ELSE /\ resp' = Answer("saveFieldPreferences", n, 400, "MissingField", 0)
                    /\ nreq' = nreq + 1
                    /\ UNCHANGED calls
          /\ UNCHANGED <<tables, metadata, pending, files, disk, tmp, models,
                         preferences>>
  \/ \E call \in calls :
       LET r == saveFieldPreferences(preferences, call.table, call.data, call.first)
       IN /\ preferences' = r.preferences
          /\ resp' = r.answer
          /\ nreq' = nreq + 1
          /\ calls' = calls \ {call}
          /\ UNCHANGED <<tables, metadata, pending, files, disk, tmp, models>>

GetFieldPreferences ==
  \E n \in {"pi_a", "users"} :
    /\ nreq < MaxRequests
    /\ resp' = Answer("getFieldPreferences", n, 200, "", 1)
    /\ nreq' = nreq + 1
    /\ UNCHANGED <<tables, metadata, pending, files, disk, tmp, calls, models,
                   preferences>>

NextStores ==
  \/ UploadFile
  \/ UploadCsv
  \/ DeleteFile
  \/ DownloadZip
  \/ SaveFieldPreferences
  \/ GetFieldPreferences

SpecStores == Init /\ [][NextStores]_vars

\* ------------------------------------------------------------------ C22
\* C22: every request that receives a temporary uploaded file (uploadCsv,
\* uploadFile) removes it, whatever its outcome: no temporary file is left
\* once the request is answered.
C22_TemporaryFileRemoved == tmp = 0

\* ------------------------------------------------------------------ C25
\* C25: deleteFile and downloadZip address a file as uploadFile stored it:
\* for every file an uploadFile stored (a pi_ upload under its
\* caracterizacion_id included), where the application's folder is the upload
\* root, a deleteFile of its row that answers 200 has removed the stored file
\* and the row, and a downloadZip of its table and effective id holds the file.
C25_FilesAddressedAsStored ==
  \A i \in DOMAIN files :
    LET file == files[i]
        dir == IF StartsWith(file.table_name, "pi_")
                 THEN "inscription_caracterizacion" ELSE file.table_name
        stored == <<dir, file.record_id, file.name>>
        del == deleteFile(files, disk, file.id, file.record_id, TRUE)
        zip == downloadZip(disk, file.table_name, file.record_id, TRUE)
    IN (file.table_name # "" /\ stored \in disk)
         => /\ del.answer.status = 200
                 => (stored \notin del.disk /\ del.files[i].table_name = "")
            /\ zip.answer.status = 200
            /\ file.name \in zip.entries

\* ------------------------------------------------------------------ C26
\* C26: after any sequence and any interleaving of saveFieldPreferences
\* requests there is at most one row of preferences for a table name, and
\* getFieldPreferences answers the visible_columns of the save that was
\* completed last for the table (the empty list when none was saved).
C26_OnePreferenceRowPerTable ==
  /\ [](\A n \in {"pi_a", "users"} :
          LET rows == {i \in DOMAIN preferences : preferences[i].table_name = n}
          IN /\ Cardinality(rows) <= 1
             /\ rows = {} => getFieldPreferences(preferences, n, 0) = <<>>)
  /\ [][\A call \in calls :
          call \notin calls'
            => \A i \in DOMAIN preferences' :
                 preferences'[i].table_name = call.table
                   => getFieldPreferences(preferences', call.table, i) = call.data]_vars

\* ------------------------------------------------------------------ C27
\* C27: deletions do not cascade. deleteTable leaves the registry entries and
\* the rows of files unchanged; deleteTableRecord is accepted only for pi_
\* tables, deletes exactly the row with the given id, and leaves the rows of
\* files and every other row of every table unchanged.
C27_DeletionsDoNotCascade ==
  /\ [][(nreq' = nreq + 1 /\ resp'.op \in {"deleteTable", "deleteTableRecord"})
           => metadata' = metadata /\ files' = files]_vars
  /\ [](\A n \in DOMAIN tables, id \in RecordIds, zeroSeen \in BOOLEAN :
          LET r == deleteTableRecord(tables, n, id, zeroSeen)
          IN /\ ~StartsWith(n, "pi_") => r.answer.status = 400
             /\ r.answer.status # 200 => r.tables = tables
             /\ r.answer.status = 200
                  => \A o \in DOMAIN tables :
                       r.tables[o].rows =
                         IF o = n
                           THEN SelectSeq(tables[o].rows, LAMBDA row : row["id"] # id)
                           ELSE tables[o].rows)

\* C27 as amended: the same, except that deleteTableRecord sets to null every
\* foreign-key column of another row that referenced the deleted row.
C27_DeletionsSetReferencesNull ==
  /\ [][(nreq' = nreq + 1 /\ resp'.op \in {"deleteTable", "deleteTableRecord"})
           => metadata' = metadata /\ files' = files]_vars
  /\ [][(nreq' = nreq + 1 /\ resp'.op = "deleteTable")
           => \A o \in DOMAIN tables :
                o # resp'.table => tables'[o] = tables[o]]_vars
  /\ [](\A n \in DOMAIN tables, id \in RecordIds, zeroSeen \in BOOLEAN :
          LET r == deleteTableRecord(tables, n, id, zeroSeen)
              hit == \E i \in DOMAIN tables[n].rows : tables[n].rows[i]["id"] = id
              Kept(o) == IF o = n
                           THEN SelectSeq(tables[o].rows, LAMBDA row : row["id"] # id)
                           ELSE tables[o].rows
          IN /\ ~StartsWith(n, "pi_") => r.answer.status = 400
             /\ r.answer.status # 200 => r.tables = tables
             /\ r.answer.status = 200
                  => \A o \in DOMAIN tables :
                       /\ Len(r.tables[o].rows) = Len(Kept(o))
                       /\ \A i \in DOMAIN Kept(o) :
                            \A c \in DOMAIN Kept(o)[i] :
                              r.tables[o].rows[i][c] =
                                IF /\ hit
                                   /\ ColOf(tables[o], c).fk = n
                                   /\ Kept(o)[i][c] = id
                                  THEN NULL ELSE Kept(o)[i][c])

\* A deleteTableRecord has deleted a row of a pi_ table that a row of another
\* table referenced, with a row of files in place.
C27_Witness ==
  /\ resp.op = "deleteTableRecord"
  /\ resp.status = 200
  /\ files # <<>>
  /\ \E o \in DOMAIN tables \ {resp.table} :
       \E i \in DOMAIN tables[o].rows : \E c \in DOMAIN tables[o].rows[i] :
         /\ ColOf(tables[o], c).fk = resp.table
         /\ tables[o].rows[i][c] = NULL

\* ------------------------------------------------------------------ C28
\* C28: editTable takes the fields to add one by one in the order of the
\* request, each checked by the per-field rules of createTable (the same type
\* names accepted, the same requirements on a foreign key), and only then the
\* columns to delete; when a field or a column is rejected, the ones before
\* it stay applied and the ones after it are not executed.
C28_AddsCheckedAsCreateTable ==
  \A n \in TableNames :
    tables[n].exists =>
      /\ \A f \in CreateFields \cup EditFields
                    \cup {Field("nombre", "text", "", ""),
                          Field("nombre", "CHARACTER VARYING", "", "")} :
           LET r == editTable(tables, n, EditBody(FALSE, <<f>>, <<>>))
           IN /\ r.status = 400 <=> FieldError(f) # ""
              /\ r.status = 400 => r.err = FieldError(f)
      /\ \A body \in EditBodies :
           LET r == editTable(tables, n, body)
               adds == body.fieldsToAdd
               dels == body.fieldsToDelete
               Applied(i, j) ==
                 editTable(tables, n, EditBody(FALSE, SubSeq(adds, 1, i),
                                               SubSeq(dels, 1, j)))
           IN (~body.fieldsToEdit /\ r.status # 200)
                => \E i \in 0..Len(adds), j \in 0..Len(dels) :
                     /\ \/ i < Len(adds) /\ j = 0
                        \/ i = Len(adds) /\ j < Len(dels)
                     /\ Applied(i, j).status = 200
                     /\ r.tables = Applied(i, j).tables

\* ------------------------------------------------------------------ C29
\* C29: the primary key of a record never changes. Whatever the body of an
\* updateTableRecord, updatePiRecord, createTableRecord or bulkUpdateRecords
\* request carries, a field `id` included, every row that was there keeps its
\* id, so the row an update returns has the id that was addressed.
C29_PrimaryKeyNeverChanges ==
  \A n \in DOMAIN tables :
    \A data \in [{"id", "caracterizacion_id", "Estado"} -> {Absent, 1, 2, 3}] :
      LET Ids(tbls) == [i \in DOMAIN tables[n].rows |-> tbls[n].rows[i]["id"]]
          found == existingRecords(tables, n, data)
      IN /\ \A id \in RecordIds :
              /\ Ids(updateTableRecord(tables, n, id, data).tables) = Ids(tables)
              /\ Ids(updatePiRecord(tables, n, id, data).tables) = Ids(tables)
         /\ \A first \in IF found = {} THEN {0} ELSE found :
              Ids(createTableRecord(tables, n, data, first).tables) = Ids(tables)
         /\ \A recordIds \in {{1}, {1, 2}} :
              Ids(bulkUpdateRecords(tables, models, n, recordIds, data).tables)
                = Ids(tables)

\* ------------------------------------------------------------------ C30
\* C30: a table name can be used again. When a table was created and then
\* deleted while empty, a createTable of the same name whose fields pass every
\* check answers 201 and leaves the table in place with its registry entry;
\* and a createTable that answers with an error has created no table.
C30_TableNameCanBeReused ==
  \A n \in TableNames, fields \in SeqsUpTo(CreateFields, MaxFields) :
    LET r == createTable(tables, metadata, n, fields)
        dropped == ~tables[n].exists /\ \E m \in metadata : m.table_name = n
        passes == /\ CreateTableError(n, fields) = ""
                  /\ ReferencesResolve(tables, n, BuildColumns(<<IdColumn>>, fields))
    IN /\ (dropped /\ passes)
            => /\ r.answer.status = 201
               /\ r.tables[n].exists
               /\ \E m \in r.metadata : m.table_name = n
       /\ r.answer.status # 201 => r.tables[n].exists = tables[n].exists

====
